---- MODULE Spec2Model ----
(***************************************************************************)
(* Routing table of the overlay network node                               *)
(* (packages/core/router/src/table.rs): one Table per layer byte of the    *)
(* 32-bit NodeId, fed by add_direct / del_direct / apply_sync and queried  *)
(* by next / next_path / sync_for.                                         *)
(*                                                                         *)
(* Metric, Path, Dest (table/metric.rs, table/path.rs, table/dest.rs) and  *)
(* NodeIdType (bluesea_identity) are not part of the available sources;    *)
(* they are modelled from their written description and from the unit      *)
(* tests of table.rs that pin their behaviour.                             *)
(***************************************************************************)
EXTENDS Integers, Sequences, FiniteSets, TLC

VARIABLES table, op, net, links, removals, ticked, rounds, dp, cp, kv, xw, internal, fm, tcp

vars == <<table, op, net, links, removals, ticked, rounds, dp, cp, kv, xw, internal, fm, tcp>>

(***************************************************************************)
(* Bounds of the model                                                     *)
(***************************************************************************)
MaxLatency == 2
\* the 256 slots of a table are represented by the slots 0 .. MaxSlot that the
\* inputs can address; every loop of the code over 0..=255 leaves an empty,
\* unmentioned slot unchanged
MaxSlot == 3
\* number of links that are taken down in the network specification
MaxRemovals == 2
\* number of complete sync rounds after which the tables must have settled
ConvergeRounds == 2

(***************************************************************************)
(* Program constants                                                       *)
(***************************************************************************)
LAYER_COUNT == 4
MAX_HOP_COUNT == 8

(***************************************************************************)
(* Node identifiers used as inputs.  NodeA is the local node of the        *)
(* single-table specification; NodeB, NodeC are its neighbours, NodeD a    *)
(* remote destination, NodeE a neighbour whose layer-0 byte equals NodeA's *)
(* and NodeF a node of another layer-3 group (0x10000000).                 *)
(***************************************************************************)
NodeA == 0
NodeB == 1
NodeC == 2
NodeD == 3
NodeE == NodeA + 256
NodeF == 268435456

None == [some |-> FALSE]
Some(v) == [some |-> TRUE, val |-> v]

SlotRange == 0 .. MaxSlot

(***************************************************************************)
(* NodeIdType                                                              *)
(***************************************************************************)
layer(node, i) == (node \div (256 ^ i)) % 256

eq_util_layer(a, b) ==
    IF layer(a, 3) # layer(b, 3) THEN 4
    ELSE IF layer(a, 2) # layer(b, 2) THEN 3
    ELSE IF layer(a, 1) # layer(b, 1) THEN 2
    ELSE IF layer(a, 0) # layer(b, 0) THEN 1
    ELSE 0

(***************************************************************************)
(* Metric                                                                  *)
(***************************************************************************)
Metric(latency, hops, bandwidth) ==
    [latency |-> latency, hops |-> hops, bandwidth |-> bandwidth]

Min(a, b) == IF a <= b THEN a ELSE b

NoDup(s) == \A i, j \in 1 .. Len(s) : i # j => s[i] # s[j]

InHops(node, hops) == \E k \in 1 .. Len(hops) : hops[k] = node

\* self = metric advertised by the neighbour, over = metric to the neighbour
MetricAdd(self, over) ==
    LET hops == self.hops \o Tail(over.hops)
    IN  IF NoDup(hops) /\ Len(hops) <= MAX_HOP_COUNT
        THEN Some(Metric((self.latency + over.latency) % 65536,
                         hops,
                         Min(self.bandwidth, over.bandwidth)))
        ELSE None

LexLess(s, t) ==
    \E k \in 1 .. Len(s) :
        /\ k <= Len(t)
        /\ s[k] < t[k]
        /\ \A j \in 1 .. (k - 1) : s[j] = t[j]

MetricLess(a, b) ==
    \/ a.latency < b.latency
    \/ /\ a.latency = b.latency
       /\ \/ a.bandwidth > b.bandwidth
          \/ /\ a.bandwidth = b.bandwidth
             /\ \/ Len(a.hops) < Len(b.hops)
                \/ /\ Len(a.hops) = Len(b.hops)
                   /\ LexLess(a.hops, b.hops)

(***************************************************************************)
(* Path                                                                    *)
(***************************************************************************)
Path(conn, node, metric) == [conn |-> conn, node |-> node, metric |-> metric]

PathLess(p, q) ==
    \/ MetricLess(p.metric, q.metric)
    \/ (p.metric = q.metric /\ p.conn < q.conn)

(***************************************************************************)
(* Dest: the paths of one slot, at most one per ConnId.  The order in    *)
(* which the map keeps them is not observable through next / next_path /   *)
(* best_for (they return the minimum of a total order), so a Dest is the   *)
(* set of its paths.                                                       *)
(***************************************************************************)
DestEmpty == {}

DestIsEmpty(dest) == dest = {}

DestPaths(dest) == dest

DestHasConn(dest, conn) == \E p \in dest : p.conn = conn

DestDelPath(dest, conn) == {p \in dest : p.conn # conn}

DestSetPath(dest, conn, node, metric) ==
    DestDelPath(dest, conn) \cup {[conn |-> conn, node |-> node, metric |-> metric]}

BestOf(paths) ==
    IF paths = {} THEN None
    ELSE Some(CHOOSE p \in paths : \A q \in paths : q = p \/ PathLess(p, q))

DestNextPath(dest, excepts) ==
    BestOf({p \in DestPaths(dest) : p.node \notin excepts})

DestNext(dest, excepts) ==
    LET r == DestNextPath(dest, excepts)
    IN  IF r.some THEN Some(<<r.val.conn, r.val.node>>) ELSE None

DestBestFor(dest, node) ==
    BestOf({p \in DestPaths(dest) :
                p.node # node /\ ~InHops(node, p.metric.hops)})

(***************************************************************************)
(* Vec<u8> helpers used for Table.slots                                    *)
(***************************************************************************)
\* the elements of s and one copy of each element of S, in ascending order:
\* slots.push(x) followed by slots.sort(), for every x of S
PushEach(s, S) ==
    LET vals     == {s[k] : k \in 1 .. Len(s)} \cup S
        Count(x) == Cardinality({k \in 1 .. Len(s) : s[k] = x})
                    + (IF x \in S THEN 1 ELSE 0)
        Below(x) == Cardinality({k \in 1 .. Len(s) : s[k] < x})
                    + Cardinality({y \in S : y < x})
    IN  IF S = {} THEN s
        ELSE [k \in 1 .. (Len(s) + Cardinality(S)) |->
                CHOOSE x \in vals : Below(x) < k /\ k <= Below(x) + Count(x)]

\* slots.push(x); slots.sort()
PushSorted(s, x) == PushEach(s, {x})

\* s without one occurrence of each element of S that it holds:
\* if let Ok(index) = slots.binary_search(&x) { slots.remove(index); }
RemoveEach(s, S) ==
    LET drop == {k \in 1 .. Len(s) :
                    s[k] \in S /\ \A j \in 1 .. (k - 1) : s[j] # s[k]}
        keep == (1 .. Len(s)) \ drop
    IN  IF drop = {} THEN s
        ELSE [k \in 1 .. Cardinality(keep) |->
                s[CHOOSE j \in keep : Cardinality({i \in keep : i <= j}) = k]]

SeqToSet(s) == {s[k] : k \in 1 .. Len(s)}

(***************************************************************************)
(* Table                                                                   *)
(***************************************************************************)
Table_new(node_id, l) ==
    [node_id |-> node_id,
     layer   |-> l,
     dests   |-> [i \in SlotRange |-> DestEmpty],
     slots   |-> <<layer(node_id, l)>>]

SelfIndex(t) == layer(t.node_id, t.layer)

\* add_direct that pushes the new index without sorting the vector
add_direct_NoSort(t, src_conn, src, src_send_metric) ==
    LET index == layer(src, t.layer)
    IN  [t EXCEPT
            !.slots = IF DestIsEmpty(t.dests[index])
                      THEN Append(t.slots, index)
                      ELSE t.slots,
            !.dests[index] = DestSetPath(t.dests[index], src_conn, src, src_send_metric)]

add_direct(t, src_conn, src, src_send_metric) ==
    LET index == layer(src, t.layer)
    IN  [t EXCEPT
            !.slots = IF DestIsEmpty(t.dests[index])
                      THEN PushSorted(t.slots, index)
                      ELSE t.slots,
            !.dests[index] = DestSetPath(t.dests[index], src_conn, src, src_send_metric)]

\* del_direct that removes the connection only from slots where it is the
\* direct path to the neighbour, leaving the paths learned over it
del_direct_DirectOnly(t, src_conn) ==
    LET dests   == [i \in SlotRange |->
                      {p \in t.dests[i] : p.conn # src_conn \/ Len(p.metric.hops) > 2}]
        removed == {i \in SlotRange : ~DestIsEmpty(t.dests[i]) /\ DestIsEmpty(dests[i])}
    IN  [t EXCEPT !.dests = dests, !.slots = RemoveEach(t.slots, removed)]

del_direct(t, src_conn) ==
    LET dests   == [i \in SlotRange |-> DestDelPath(t.dests[i], src_conn)]
        removed == {i \in SlotRange : ~DestIsEmpty(t.dests[i]) /\ DestIsEmpty(dests[i])}
    IN  [t EXCEPT !.dests = dests, !.slots = RemoveEach(t.slots, removed)]

\* next that ignores the exclusion list
next_IgnoreExcepts(t, dest, excepts) == DestNext(t.dests[layer(dest, t.layer)], {})

\* next that hands the packet back to an excepted node when the slot has a
\* path over one
next_BackToSender(t, dest, excepts) ==
    LET back == BestOf({p \in DestPaths(t.dests[layer(dest, t.layer)]) : p.node \in excepts})
    IN  IF back.some THEN Some(<<back.val.conn, back.val.node>>)
        ELSE DestNext(t.dests[layer(dest, t.layer)], excepts)

next(t, dest, excepts) == DestNext(t.dests[layer(dest, t.layer)], excepts)

next_path(t, dest, excepts) == DestNextPath(t.dests[layer(dest, t.layer)], excepts)

\* cached that keeps the advertised metric instead of the sum with the link
SyncCached_NoAdd(sync, src_send_metric) ==
    LET idx == {sync[k][1] : k \in 1 .. Len(sync)}
    IN  [i \in idx |->
            LET last == CHOOSE k \in 1 .. Len(sync) :
                            sync[k][1] = i /\ \A j \in 1 .. Len(sync) : sync[j][1] = i => j <= k
            IN  sync[last][2]]

\* cached that gives up the whole sync at the first entry Metric::add rejects
SyncCached_AbortOnLoop(sync, src_send_metric) ==
    IF \E k \in 1 .. Len(sync) : ~MetricAdd(sync[k][2], src_send_metric).some
    THEN << >>
    ELSE LET idx == {sync[k][1] : k \in 1 .. Len(sync)}
         IN  [i \in idx |->
                LET last == CHOOSE k \in 1 .. Len(sync) :
                                sync[k][1] = i
                                /\ \A j \in 1 .. Len(sync) : sync[j][1] = i => j <= k
                IN  MetricAdd(sync[last][2], src_send_metric).val]

\* the HashMap `cached' built by the first loop of apply_sync
SyncCached(sync, src_send_metric) ==
    LET ok == {k \in 1 .. Len(sync) : MetricAdd(sync[k][2], src_send_metric).some}
        idx == {sync[k][1] : k \in ok}
    IN  [i \in idx |->
            LET last == CHOOSE k \in ok :
                            sync[k][1] = i /\ \A j \in ok : sync[j][1] = i => j <= k
            IN  MetricAdd(sync[last][2], src_send_metric).val]

\* apply_sync that pushes the index of every accepted entry, without the
\* dest.is_empty() test
apply_sync_AlwaysPush(t, src_conn, src, src_send_metric, sync) ==
    LET cached == SyncCached(sync, src_send_metric)
        self   == SelfIndex(t)
        dests  == [i \in SlotRange |->
                     IF i = self THEN t.dests[i]
                     ELSE IF i \in DOMAIN cached
                          THEN DestSetPath(t.dests[i], src_conn, src, cached[i])
                     ELSE IF ~DestIsEmpty(t.dests[i]) /\ layer(src, t.layer) # i
                          THEN DestDelPath(t.dests[i], src_conn)
                     ELSE t.dests[i]]
        removed == {i \in SlotRange : ~DestIsEmpty(t.dests[i]) /\ DestIsEmpty(dests[i])}
        added   == {i \in SlotRange : i # self /\ i \in DOMAIN cached}
    IN  [t EXCEPT !.dests = dests,
                  !.slots = PushEach(RemoveEach(t.slots, removed), added)]

\* apply_sync that never withdraws a path the sync no longer mentions
apply_sync_NoWithdraw(t, src_conn, src, src_send_metric, sync) ==
    LET cached == SyncCached(sync, src_send_metric)
        self   == SelfIndex(t)
        dests  == [i \in SlotRange |->
                     IF i = self THEN t.dests[i]
                     ELSE IF i \in DOMAIN cached
                          THEN DestSetPath(t.dests[i], src_conn, src, cached[i])
                     ELSE t.dests[i]]
        added   == {i \in SlotRange : DestIsEmpty(t.dests[i]) /\ ~DestIsEmpty(dests[i])}
    IN  [t EXCEPT !.dests = dests, !.slots = PushEach(t.slots, added)]

\* apply_sync that withdraws the unmentioned slot of the neighbour itself too
apply_sync_NoSrcGuard(t, src_conn, src, src_send_metric, sync) ==
    LET cached == SyncCached(sync, src_send_metric)
        self   == SelfIndex(t)
        dests  == [i \in SlotRange |->
                     IF i = self THEN t.dests[i]
                     ELSE IF i \in DOMAIN cached
                          THEN DestSetPath(t.dests[i], src_conn, src, cached[i])
                     ELSE IF ~DestIsEmpty(t.dests[i])
                          THEN DestDelPath(t.dests[i], src_conn)
                     ELSE t.dests[i]]
        removed == {i \in SlotRange : ~DestIsEmpty(t.dests[i]) /\ DestIsEmpty(dests[i])}
        added   == {i \in SlotRange : DestIsEmpty(t.dests[i]) /\ ~DestIsEmpty(dests[i])}
    IN  [t EXCEPT !.dests = dests,
                  !.slots = PushEach(RemoveEach(t.slots, removed), added)]

apply_sync(t, src_conn, src, src_send_metric, sync) ==
    LET cached == SyncCached(sync, src_send_metric)
        self   == SelfIndex(t)
        dests  == [i \in SlotRange |->
                     IF i = self THEN t.dests[i]
                     ELSE IF i \in DOMAIN cached
                          THEN DestSetPath(t.dests[i], src_conn, src, cached[i])
                     ELSE IF ~DestIsEmpty(t.dests[i]) /\ layer(src, t.layer) # i
                          THEN DestDelPath(t.dests[i], src_conn)
                     ELSE t.dests[i]]
        removed == {i \in SlotRange : ~DestIsEmpty(t.dests[i]) /\ DestIsEmpty(dests[i])}
        added   == {i \in SlotRange : DestIsEmpty(t.dests[i]) /\ ~DestIsEmpty(dests[i])}
    IN  [t EXCEPT !.dests = dests,
                  !.slots = PushEach(RemoveEach(t.slots, removed), added)]

\* the k-th smallest element of a set of slot indices
Nth(S, k) == CHOOSE i \in S : Cardinality({j \in S : j <= i}) = k

\* the rows pushed by the loop of sync_for, in ascending slot order
SyncRows(t, node) ==
    LET rows == {i \in SlotRange : /\ ~DestIsEmpty(t.dests[i])
                                  /\ i # SelfIndex(t)
                                  /\ DestBestFor(t.dests[i], node).some}
    IN  [k \in 1 .. Cardinality(rows) |->
            <<Nth(rows, k), DestBestFor(t.dests[Nth(rows, k)], node).val.metric>>]

\* sync_for that advertises the best path of every slot, whatever it traverses
SyncRowsAll(t, node) ==
    LET rows == {i \in SlotRange : ~DestIsEmpty(t.dests[i]) /\ i # SelfIndex(t)}
    IN  [k \in 1 .. Cardinality(rows) |->
            <<Nth(rows, k), DestNextPath(t.dests[Nth(rows, k)], {}).val.metric>>]

sync_for_NoPoison(t, node) ==
    IF eq_util_layer(t.node_id, node) > t.layer + 1
    THEN None
    ELSE Some(SyncRowsAll(t, node))

\* sync_for whose scope test is off by one
sync_for_ScopeOffByOne(t, node) ==
    IF eq_util_layer(t.node_id, node) >= t.layer + 1
    THEN None
    ELSE Some(SyncRows(t, node))

\* sync_for without the test that skips the local node's own slot
sync_for_WithSelf(t, node) ==
    IF eq_util_layer(t.node_id, node) > t.layer + 1
    THEN None
    ELSE LET rows == {i \in SlotRange : /\ ~DestIsEmpty(t.dests[i])
                                       /\ DestBestFor(t.dests[i], node).some}
         IN  Some([k \in 1 .. Cardinality(rows) |->
                    <<Nth(rows, k), DestBestFor(t.dests[Nth(rows, k)], node).val.metric>>])

sync_for(t, node) ==
    IF eq_util_layer(t.node_id, node) > t.layer + 1
    THEN None
    ELSE Some(SyncRows(t, node))

(***************************************************************************)
(* Inputs of the single-table specification                                *)
(***************************************************************************)
Conns == {1, 2}

\* the neighbour(s) that a connection is opened to
ConnNodes(conn) == IF conn = 1 THEN {NodeB} ELSE {NodeC, NodeE}

Latencies == 1 .. MaxLatency

\* locally measured metric of the link to neighbour src
DirectMetrics(self, src) ==
    {Metric(1, <<src, self>>, 1)}

SyncDests(src) == IF src = NodeE THEN {NodeD} ELSE {NodeB, NodeC, NodeD} \ {src}

\* metrics a neighbour src may advertise about destination d: its path to d,
\* or a path that runs through the local node (a loop once relayed)
SyncEntries(self, l, src) ==
    UNION {{<<layer(d, l), Metric(lat, <<d, src>>, 1)>> :
                lat \in (IF d = NodeD THEN Latencies ELSE {1})} : d \in SyncDests(src)}
    \cup {<<layer(NodeD, l), Metric(1, <<NodeD, self, src>>, 1)>>,
          <<layer(self, l), Metric(1, <<self, src>>, 1)>>}

\* a TableSync as sync_for builds it: at most one entry per slot, in ascending
\* slot order
OrderedSyncs(entries) ==
    LET slots == {e[1] : e \in entries}
    IN  UNION {{[k \in 1 .. Cardinality(S) |-> f[Nth(S, k)]] :
                    f \in {g \in [S -> entries] : \A i \in S : g[i][1] = i}} :
               S \in SUBSET slots}

\* a TableSync that names the same slot twice
RepeatingSyncs(entries) ==
    {<<e1, e2>> : <<e1, e2>> \in {q \in entries \X entries : q[1][1] = q[2][1] /\ q[1] # q[2]}}

Syncs(self, l, src) ==
    OrderedSyncs(SyncEntries(self, l, src)) \cup RepeatingSyncs(SyncEntries(self, l, src))

\* the sync messages the neighbours of NodeA can send, per layer and sender
SyncsToA ==
    [l \in 0 .. LAYER_COUNT - 1 |->
        [src \in UNION {ConnNodes(conn) : conn \in Conns} |-> Syncs(NodeA, l, src)]]

\* destinations asked of next / next_path, and remotes asked of sync_for
DestNodes == {NodeA, NodeB, NodeC, NodeD, NodeE}
QueryNodes == DestNodes \cup {NodeF}

\* op records the last operation on the table and its arguments; withdrawn is
\* the set of slots that lost their path over op.conn in that operation
NoOp == [kind |-> "new", conn |-> 0, src |-> 0,
         metric |-> Metric(0, << >>, 0), sync |-> << >>, withdrawn |-> {}]

Withdrawn(t, u, conn) ==
    {i \in SlotRange : DestHasConn(t.dests[i], conn) /\ ~DestHasConn(u.dests[i], conn)}

(***************************************************************************)
(* Single-table specification                                              *)
(***************************************************************************)
NetIdle == << >>

\* the planes are not part of the routing-table specifications
PlaneIdle == << >>

Init ==
    /\ \E l \in 0 .. (LAYER_COUNT - 1) : table = Table_new(NodeA, l)
    /\ op = NoOp
    /\ net = NetIdle
    /\ links = {}
    /\ removals = 0
    /\ ticked = {}
    /\ rounds = 0
    /\ kv = PlaneIdle
    /\ xw = PlaneIdle
    /\ internal = PlaneIdle
    /\ fm = PlaneIdle
    /\ tcp = PlaneIdle
    /\ dp = PlaneIdle
    /\ cp = PlaneIdle

AddDirect ==
    \E conn \in Conns :
      \E src \in ConnNodes(conn) :
        \E m \in DirectMetrics(table.node_id, src) :
            /\ table' = add_direct(table, conn, src, m)
            /\ op' = [kind |-> "add_direct", conn |-> conn, src |-> src,
                      metric |-> m, sync |-> << >>, withdrawn |-> {}]
            /\ UNCHANGED <<net, links, removals, ticked, rounds, dp, cp, kv, xw, internal, fm, tcp>>

DelDirect ==
    \E conn \in Conns :
        /\ table' = del_direct(table, conn)
        /\ op' = [kind |-> "del_direct", conn |-> conn, src |-> 0,
                  metric |-> Metric(0, << >>, 0), sync |-> << >>,
                  withdrawn |-> Withdrawn(table, table', conn)]
        /\ UNCHANGED <<net, links, removals, ticked, rounds, dp, cp, kv, xw, internal, fm, tcp>>

ApplySync ==
    \E conn \in Conns :
      \E src \in ConnNodes(conn) :
        \E m \in DirectMetrics(table.node_id, src) :
          \E sync \in SyncsToA[table.layer][src] :
            /\ table' = apply_sync(table, conn, src, m, sync)
            /\ op' = [kind |-> "apply_sync", conn |-> conn, src |-> src,
                      metric |-> m, sync |-> sync,
                      withdrawn |-> Withdrawn(table, table', conn)]
            /\ UNCHANGED <<net, links, removals, ticked, rounds, dp, cp, kv, xw, internal, fm, tcp>>

Next == AddDirect \/ DelDirect \/ ApplySync

Spec == Init /\ [][Next]_vars

(***************************************************************************)
(* Properties of the single table                                          *)
(***************************************************************************)
ExceptSets == {{}, {NodeB}, {NodeC}, {NodeB, NodeC}}

IsSome(r) == r.some

\* the metrics of every route the table can hand out
EmittedMetrics(t) ==
    {next_path(t, d, ex).val.metric :
        <<d, ex>> \in {q \in DestNodes \X ExceptSets : IsSome(next_path(t, q[1], q[2]))}}
    \cup UNION {{sync_for(t, n).val[k][2] : k \in 1 .. Len(sync_for(t, n).val)} :
                    n \in {q \in QueryNodes : IsSome(sync_for(t, q))}}

LastHop(m) == m.hops[Len(m.hops)]

\* C1 (as stated): no route the table emits has the local node in its
\* Metric.hops.
C1_NoSelfInHops ==
    \A m \in EmittedMetrics(table) : ~InHops(table.node_id, m.hops)

\* C1 (amended): every route the table emits has a duplicate-free hop list
\* whose last element is the local node: the local node appears exactly once,
\* at the end, and never as an intermediate hop.
C1_SelfOnlyLastHop ==
    \A m \in EmittedMetrics(table) :
        /\ NoDup(m.hops)
        /\ LastHop(m) = table.node_id

C1_Witness ==
    /\ op.kind = "apply_sync"
    /\ \E m \in EmittedMetrics(table) : Len(m.hops) = 3

NonEmptySlots(t) == {i \in SlotRange : ~DestIsEmpty(t.dests[i])}

StrictlyAscending(s) == \A i, j \in 1 .. Len(s) : i < j => s[i] < s[j]

Ascending(s) == \A i, j \in 1 .. Len(s) : i < j => s[i] <= s[j]

C39_SlotsNoDuplicate ==
    \A i, j \in 1 .. Len(table.slots) : table.slots[i] = table.slots[j] => i = j

\* C3: the Dest of the local node's own slot is never modified, by apply_sync
\* or by any other operation on the table.
C3_SelfSlotNeverModified ==
    [][table'.dests[SelfIndex(table)] = table.dests[SelfIndex(table)]]_vars

\* C4: sync_for(N) never contains a metric whose hops contains N.
C4_PoisonedReverse ==
    \A n \in QueryNodes :
        LET r == sync_for(table, n)
        IN  r.some => \A k \in 1 .. Len(r.val) : ~InHops(n, r.val[k][2].hops)

SyncSlots(r) == {r.val[k][1] : k \in 1 .. Len(r.val)}

\* the path to NodeD through NodeB is advertised to NodeC but not to NodeB
C4_Witness ==
    /\ table.layer = 0
    /\ \E p \in table.dests[layer(NodeD, 0)] : InHops(NodeB, p.metric.hops)
    /\ sync_for(table, NodeB).some
    /\ layer(NodeD, 0) \notin SyncSlots(sync_for(table, NodeB))
    /\ layer(NodeD, 0) \in SyncSlots(sync_for(table, NodeC))

Observable(t) ==
    <<t.slots,
      [q \in DestNodes \X ExceptSets |-> next(t, q[1], q[2])],
      [q \in DestNodes \X ExceptSets |-> next_path(t, q[1], q[2])],
      [n \in QueryNodes |-> sync_for(t, n)]>>

\* C5: applying the sync that was just applied a second time, with the same
\* src_conn, src and src_metric, leaves slots and the results of next,
\* next_path and sync_for unchanged.
C5_ApplySyncIdempotent ==
    op.kind = "apply_sync" =>
        Observable(apply_sync(table, op.conn, op.src, op.metric, op.sync))
            = Observable(table)

C5_Witness ==
    /\ op.kind = "apply_sync"
    /\ Len(op.sync) = 2
    /\ op.withdrawn # {}
    /\ \E i \in SlotRange : i # layer(op.src, table.layer)
                            /\ DestHasConn(table.dests[i], op.conn)

Mentioned(sync) == {sync[k][1] : k \in 1 .. Len(sync)}

\* C6: after apply_sync(src_conn, src, ..) every slot other than the local one
\* and src.layer(L) that the sync does not mention holds no path over src_conn
\* (and is empty when src_conn carried its only paths), its other paths being
\* kept; the slot src.layer(L) keeps a path over src_conn, unchanged when the
\* sync does not mention that slot.
C6_WithdrawByOmission ==
    [][op'.kind = "apply_sync" =>
        LET srcidx == layer(op'.src, table.layer)
            conn   == op'.conn
        IN  /\ \A i \in SlotRange \ ({SelfIndex(table), srcidx} \cup Mentioned(op'.sync)) :
                    /\ ~DestHasConn(table'.dests[i], conn)
                    /\ table'.dests[i] = {p \in table.dests[i] : p.conn # conn}
                    /\ (\A p \in table.dests[i] : p.conn = conn)
                            => \A d \in DestNodes :
                                  layer(d, table.layer) = i => ~next(table', d, {}).some
            /\ DestHasConn(table.dests[srcidx], conn)
                    => DestHasConn(table'.dests[srcidx], conn)
            /\ srcidx \notin Mentioned(op'.sync)
                    => table'.dests[srcidx] = table.dests[srcidx]]_vars

\* a sync of NodeB that omits a slot it had advertised: the slot is withdrawn
\* and left empty, the direct path to NodeB stays
C6_Witness ==
    /\ op.kind = "apply_sync"
    /\ op.src = NodeB
    /\ table.layer = 0
    /\ \E i \in op.withdrawn : DestIsEmpty(table.dests[i]) /\ i \notin Mentioned(op.sync)
    /\ DestHasConn(table.dests[layer(NodeB, 0)], op.conn)
    /\ layer(NodeB, 0) \notin Mentioned(op.sync)

\* hop list of sync entry k once relayed over the link of the last apply_sync
Combined(k) == op.sync[k][2].hops \o Tail(op.metric.hops)

Accepted(k) == NoDup(Combined(k)) /\ Len(Combined(k)) <= MAX_HOP_COUNT

\* C7: after apply_sync no path of the table carries the hop list of an entry
\* whose combined hop list holds a node twice, every path over src_conn has a
\* duplicate-free hop list, and every other entry of the sync (the last one
\* for its slot, outside the local slot) is stored over src_conn with the
\* summed metric.
C7_LoopEntryDropped ==
    op.kind = "apply_sync" =>
        /\ \A k \in 1 .. Len(op.sync) :
                ~NoDup(Combined(k)) =>
                    \A i \in SlotRange : \A p \in table.dests[i] :
                        p.metric.hops # Combined(k)
        /\ \A i \in SlotRange : \A p \in table.dests[i] :
                p.conn = op.conn => NoDup(p.metric.hops)
        /\ \A k \in 1 .. Len(op.sync) :
                ( /\ Accepted(k)
                  /\ op.sync[k][1] # SelfIndex(table)
                  /\ \A j \in (k + 1) .. Len(op.sync) :
                        op.sync[j][1] = op.sync[k][1] => ~Accepted(j) )
                => [conn   |-> op.conn,
                    node   |-> op.src,
                    metric |-> [latency   |-> op.sync[k][2].latency + op.metric.latency,
                                hops      |-> Combined(k),
                                bandwidth |-> Min(op.sync[k][2].bandwidth,
                                                  op.metric.bandwidth)]]
                        \in table.dests[op.sync[k][1]]

\* a sync with a looping entry and a good entry for another slot
C7_Witness ==
    /\ op.kind = "apply_sync"
    /\ \E k, j \in 1 .. Len(op.sync) :
            /\ ~NoDup(Combined(k))
            /\ op.sync[k][1] # SelfIndex(table)
            /\ Accepted(j)
            /\ op.sync[j][1] \notin {SelfIndex(table), op.sync[k][1]}
            /\ DestHasConn(table.dests[op.sync[j][1]], op.conn)
            /\ ~DestHasConn(table.dests[op.sync[k][1]], op.conn)

\* C8: next(dest, excepts) is None exactly when slot dest.layer(L) has no path
\* whose next hop is outside excepts, and otherwise the connection and next
\* hop of such a path that no other such path of the slot beats by its metric.
C8_NextIsBest ==
    \A d \in DestNodes : \A ex \in ExceptSets :
        LET elig == {p \in table.dests[layer(d, table.layer)] : p.node \notin ex}
            r    == next(table, d, ex)
        IN  /\ r.some <=> elig # {}
            /\ r.some =>
                 \E p \in elig :
                    /\ r.val = <<p.conn, p.node>>
                    /\ \A q \in elig : ~MetricLess(q.metric, p.metric)

\* NodeC just withdrew its route to NodeD: NodeD is routed over NodeB again,
\* NodeC is reached directly although NodeB advertises it too
C8_Witness ==
    /\ table.layer = 0
    /\ op.kind = "apply_sync"
    /\ op.src = NodeC
    /\ layer(NodeD, 0) \in op.withdrawn
    /\ next(table, NodeD, {}) = Some(<<1, NodeB>>)
    /\ next(table, NodeC, {}) = Some(<<2, NodeC>>)
    /\ DestHasConn(table.dests[layer(NodeC, 0)], 1)
    /\ next(table, NodeB, {}) = Some(<<1, NodeB>>)
    /\ next(table, NodeC, {NodeC}) = Some(<<1, NodeB>>)

\* C10: sync_for(remote) is None exactly when the local node and remote
\* differ in a byte above the table's layer, i.e. eq_util_layer > L + 1; the
\* layer-0 table of node 0x0 returns None for 0x10000000.
C10_SyncScope ==
    /\ \A n \in QueryNodes :
            ~sync_for(table, n).some
                <=> \E j \in (table.layer + 1) .. (LAYER_COUNT - 1) :
                        layer(table.node_id, j) # layer(n, j)
    /\ (table.node_id = 0 /\ table.layer = 0) => sync_for(table, NodeF) = None

C10_Witness ==
    /\ table.layer = 0
    /\ op.kind # "new"
    /\ sync_for(table, NodeF) = None
    /\ sync_for(table, NodeE) = None
    /\ sync_for(table, NodeB).some
    /\ Len(sync_for(table, NodeB).val) > 0

ConnInTable(t, conn) == \E i \in SlotRange : DestHasConn(t.dests[i], conn)

ConnReturned(t, conn) ==
    \E d \in DestNodes : \E ex \in ExceptSets :
        \/ (next(t, d, ex).some /\ next(t, d, ex).val[1] = conn)
        \/ (next_path(t, d, ex).some /\ next_path(t, d, ex).val.conn = conn)

\* C11: a del_direct(conn) step leaves no slot with a path over conn, direct
\* or learned, and next / next_path do not return conn; a connection that is
\* in no slot stays out of the table, and out of the answers of next and
\* next_path, in every step other than an add_direct or apply_sync over it.
C11_DelDirectRemovesConn ==
    [][/\ op'.kind = "del_direct" =>
            /\ ~ConnInTable(table', op'.conn)
            /\ ~ConnReturned(table', op'.conn)
       /\ \A conn \in Conns :
            (~ConnInTable(table, conn)
                /\ ~(op'.kind \in {"add_direct", "apply_sync"} /\ op'.conn = conn))
            => (~ConnInTable(table', conn) /\ ~ConnReturned(table', conn))]_vars

\* the connection to NodeB is deleted while it carried the direct path to
\* NodeB and a learned path to NodeD; the connection to NodeC remains
C11_Witness ==
    /\ table.layer = 0
    /\ op.kind = "del_direct"
    /\ op.conn = 1
    /\ {layer(NodeB, 0), layer(NodeD, 0)} \subseteq op.withdrawn
    /\ ~ConnInTable(table, 1)
    /\ ConnInTable(table, 2)
    /\ next(table, NodeD, {}) = Some(<<2, NodeC>>)

(***************************************************************************)
(* Network of layer-0 tables kept in step by the router-sync exchange:     *)
(* every node periodically sends sync_for(neighbour) to each neighbour,    *)
(* which applies it with the metric of the link; a connection that goes    *)
(* down triggers del_direct on both ends.                                  *)
(***************************************************************************)
NetNodes == {NodeA, NodeB, NodeC, NodeD}

\* the static topologies: a triangle NodeA, NodeB, NodeC with NodeD attached
\* to NodeC, the line NodeA - NodeB - NodeC - NodeD, and the ring NodeA -
\* NodeB - NodeC - NodeD - NodeA
Topologies ==
    {{{NodeA, NodeB}, {NodeB, NodeC}, {NodeA, NodeC}, {NodeC, NodeD}},
     {{NodeA, NodeB}, {NodeB, NodeC}, {NodeC, NodeD}},
     {{NodeA, NodeB}, {NodeB, NodeC}, {NodeC, NodeD}, {NodeD, NodeA}}}

\* ConnId of the connection of node a to its neighbour b
ConnOf(a, b) == b + 1

LinkMetric(a, b) == Metric(1, <<b, a>>, 1)

Neighbours(a, ls) == {b \in NetNodes : {a, b} \in ls}

RECURSIVE ConnectAll(_, _, _)
ConnectAll(t, a, nbs) ==
    IF nbs = {} THEN t
    ELSE LET b == CHOOSE x \in nbs : \A y \in nbs : x <= y
         IN  ConnectAll(add_direct(t, ConnOf(a, b), b, LinkMetric(a, b)), a, nbs \ {b})

InitNet ==
    /\ table = Table_new(NodeA, 0)
    /\ op = NoOp
    /\ links \in Topologies
    /\ net = [a \in NetNodes |-> ConnectAll(Table_new(a, 0), a, Neighbours(a, links))]
    /\ removals = 0
    /\ ticked = {}
    /\ rounds = 0
    /\ kv = PlaneIdle
    /\ xw = PlaneIdle
    /\ internal = PlaneIdle
    /\ fm = PlaneIdle
    /\ tcp = PlaneIdle
    /\ dp = PlaneIdle
    /\ cp = PlaneIdle

\* table of neighbour b after it applied the sync node a sends it
SyncApplied(a, b) ==
    LET sync == sync_for(net[a], b)
    IN  IF sync.some
        THEN apply_sync(net[b], ConnOf(b, a), a, LinkMetric(b, a), sync.val)
        ELSE net[b]

\* one sync tick of node a: every neighbour receives a's sync and applies it
SyncResult(a) ==
    [b \in NetNodes |-> IF {a, b} \in links THEN SyncApplied(a, b) ELSE net[b]]

\* ticked and rounds count the sync rounds since the topology last changed: a
\* round is complete once every node has ticked at least once in it
SyncTick(a) ==
    /\ net' = SyncResult(a)
    /\ IF ticked \cup {a} = NetNodes
       THEN ticked' = {} /\ rounds' = (IF rounds < ConvergeRounds THEN rounds + 1 ELSE rounds)
       ELSE ticked' = ticked \cup {a} /\ rounds' = rounds
    /\ UNCHANGED <<table, op, links, removals, dp, cp, kv, xw, internal, fm, tcp>>

Disconnect(a, b) ==
    /\ {a, b} \in links
    /\ removals < MaxRemovals
    /\ links' = links \ {{a, b}}
    /\ net' = [net EXCEPT ![a] = del_direct(net[a], ConnOf(a, b)),
                          ![b] = del_direct(net[b], ConnOf(b, a))]
    /\ removals' = removals + 1
    /\ ticked' = {}
    /\ rounds' = 0
    /\ UNCHANGED <<table, op, dp, cp, kv, xw, internal, fm, tcp>>

NextNet ==
    \/ \E a \in NetNodes : SyncTick(a)
    \/ \E a, b \in NetNodes : Disconnect(a, b)

SpecNet == InitNet /\ [][NextNet]_vars

RECURSIVE ReachSet(_, _, _)
ReachSet(S, ls, n) ==
    IF n = 0 THEN S
    ELSE ReachSet(S \cup UNION {Neighbours(a, ls) : a \in S}, ls, n - 1)

Reachable(a, b) == b \in ReachSet({a}, links, Cardinality(NetNodes))

NetFixpoint ==
    \A a \in NetNodes : SyncResult(a) = net

NetRoutesMatchTopology ==
    \A a, b \in NetNodes :
        a # b => (next(net[a], b, {}).some <=> Reachable(a, b))

\* C9: once every node has completed ConvergeRounds sync rounds since the
\* topology last changed, the tables are at a fixed point of the exchange in
\* which a node has a route to another node exactly when the links still
\* connect them: every connected pair is routed and no route is left to a
\* destination that a removed link or node cut off.
C9_Converges ==
    rounds >= ConvergeRounds => (NetFixpoint /\ NetRoutesMatchTopology)

\* links were removed, NodeD is cut off and no table routes to it any more,
\* while NodeA still reaches NodeC
C9_Witness ==
    /\ removals > 0
    /\ rounds >= ConvergeRounds
    /\ NetFixpoint
    /\ NetRoutesMatchTopology
    /\ ~Reachable(NodeA, NodeD)
    /\ Reachable(NodeA, NodeC)

\* hop-by-hop forwarding of a packet for dest that is at node n and came from
\* the nodes of from (none at its source): at every node the next hop is
\* next(dest, excepts = from); visited are the nodes the packet has been at
RECURSIVE Forward(_, _, _, _)
Forward(n, from, dest, visited) ==
    IF n = dest THEN "arrived"
    ELSE LET hop == next(net[n], dest, from)
         IN  IF ~hop.some THEN "reject"
             ELSE IF hop.val[2] \in visited THEN "loop"
             ELSE Forward(hop.val[2], {n}, dest, visited \cup {hop.val[2]})

\* C40: at a fixed point of the sync exchange a packet forwarded hop by hop
\* from any node toward any destination is at no node twice: it arrives or
\* is rejected.
C40_NoForwardingLoop ==
    NetFixpoint =>
        \A a, b \in NetNodes : a # b => Forward(a, {}, b, {a}) \in {"arrived", "reject"}

\* the tables of the ring are at a fixed point: NodeB has a path to NodeC
\* over NodeA, where the packet of NodeA for NodeC comes from, and forwards
\* it to NodeC
C40_Witness ==
    /\ NetFixpoint
    /\ {NodeD, NodeA} \in links
    /\ {NodeA, NodeC} \notin links
    /\ next(net[NodeA], NodeC, {}) = Some(<<ConnOf(NodeA, NodeB), NodeB>>)
    /\ \E p \in DestPaths(net[NodeB].dests[layer(NodeC, 0)]) : p.node = NodeA
    /\ Forward(NodeA, {}, NodeC, {NodeA}) = "arrived"


(***************************************************************************)
(* Data plane (packages/network/src/data_plane.rs): per-packet path of a   *)
(* worker of node NodeA.  Buffer, TransportMsgHeader, NeighboursControl,   *)
(* DataPlaneConnection, ShadowRouter and the feature workers are not part  *)
(* of the available sources; they are modelled from their written          *)
(* description.                                                            *)
(***************************************************************************)
\* number of outputs that may be pending when the next event is delivered
MaxPending == 0

AddrB == 1
AddrC == 2
AddrD == 3
Addrs == {AddrB, AddrC, AddrD}

\* node that answers at an address
NodeAt(addr) == IF addr = AddrB THEN NodeB ELSE IF addr = AddrC THEN NodeC ELSE NodeD

ConnIds == {1, 2, 3}

\* the key of a secured connection
CipherKey == 7

\* wire values of the route types the inputs use
RouteDirect == 0
RouteToNode == 1
RouteBroadcast == 5

\* feature ids: Neighbours, Data, RouterSync, Vpn, DhtKv
FeatureIds == 0 .. 4
FeatureData == 1

Err == [ok |-> FALSE]
Ok(v) == [ok |-> TRUE, val |-> v]

\* ---- Buffer / TransportMsgHeader ----
U32Bytes(n) ==
    <<(n \div 16777216) % 256, (n \div 65536) % 256, (n \div 256) % 256, n % 256>>

U32At(buf, k) ==
    buf[k] * 16777216 + buf[k + 1] * 65536 + buf[k + 2] * 256 + buf[k + 3]

\* byte 0: [version:2 | secure:1 | route_type:3 | from_node_present:1 | reserved:1]
is_secure(first) == (first \div 32) % 2 = 1

RouteTypeOf(rule) ==
    IF rule.type = "Direct" THEN RouteDirect
    ELSE IF rule.type = "ToNode" THEN RouteToNode
    ELSE RouteBroadcast

RulePayload(rule) == IF rule.type = "ToNode" THEN U32Bytes(rule.node) ELSE << >>

Header(secure, feature, ttl, flags, from_node, route) ==
    [secure |-> secure, feature |-> feature, ttl |-> ttl, flags |-> flags,
     from_node |-> from_node, route |-> route]

\* the bytes of a header, followed by the payload
build_raw(header, payload) ==
    <<(IF header.secure THEN 32 ELSE 0) + RouteTypeOf(header.route) * 4
            + (IF header.from_node.some THEN 2 ELSE 0),
      header.feature, header.ttl, header.flags>>
    \o (IF header.from_node.some THEN U32Bytes(header.from_node.val) ELSE << >>)
    \o RulePayload(header.route)
    \o payload

\* TransportMsgHeader::try_from(&[u8])
HeaderTryFrom(buf) ==
    IF Len(buf) < 4 \/ buf[1] \div 64 # 0 THEN Err
    ELSE LET rtype == (buf[1] \div 4) % 8
             from  == (buf[1] \div 2) % 2 = 1
             at    == IF from THEN 9 ELSE 5
         IN  IF rtype \notin {RouteDirect, RouteToNode, RouteBroadcast} THEN Err
             ELSE IF Len(buf) < at - 1 + (IF rtype = RouteToNode THEN 4 ELSE 0) THEN Err
             ELSE Ok(Header(is_secure(buf[1]), buf[2], buf[3], buf[4],
                            IF from THEN Some(U32At(buf, 5)) ELSE None,
                            IF rtype = RouteDirect THEN [type |-> "Direct"]
                            ELSE IF rtype = RouteToNode
                                 THEN [type |-> "ToNode", node |-> U32At(buf, at)]
                            ELSE [type |-> "Broadcast"]))

\* TransportMsgHeader::decrease_ttl(&mut buf): false, buffer untouched, when
\* the ttl is exhausted
decrease_ttl(buf) ==
    IF buf[3] = 0 THEN [ok |-> FALSE, buf |-> buf]
    ELSE [ok |-> TRUE, buf |-> [buf EXCEPT ![3] = @ - 1]]

TtlOf(buf) == buf[3]

\* NeighboursControl::try_from(&[u8]): a two-byte frame that starts with 255
NeighboursControlTryFrom(buf) ==
    IF Len(buf) = 2 /\ buf[1] = 255 THEN Ok(buf[2]) ELSE Err

\* ---- DataPlaneConnection ----
DataPlaneConnection(node, conn, addr, secure) ==
    [node |-> node, conn |-> conn, addr |-> addr, secure |-> secure]

\* authenticated encryption of everything behind byte 0, tag appended
Seal(key, buf) ==
    <<buf[1]>> \o [k \in 1 .. (Len(buf) - 1) |-> (buf[k + 1] + key) % 256] \o <<key>>

Unseal(key, buf) ==
    IF Len(buf) < 2 \/ buf[Len(buf)] # key THEN None
    ELSE Some(<<buf[1]>> \o [k \in 1 .. (Len(buf) - 2) |-> (buf[k + 1] + 256 - key) % 256])

encrypt_if_need(conn, buf) ==
    IF ~is_secure(buf[1]) THEN Some(buf)
    ELSE IF conn.secure.some THEN Some(Seal(conn.secure.val, buf))
    ELSE None

decrypt_if_need(conn, buf) ==
    IF conn.secure.some THEN Unseal(conn.secure.val, buf) ELSE None

\* ---- ShadowRouter ----
Reject == [kind |-> "Reject"]
Local == [kind |-> "Local"]
NextTo(remote) == [kind |-> "Next", remote |-> remote]
BroadcastTo(local, remotes) == [kind |-> "Broadcast", local |-> local, remotes |-> remotes]

\* next hops of the shadow table towards a node, best first
ShadowRoutes(node) ==
    IF node = NodeB THEN <<AddrB, AddrC>>
    ELSE IF node = NodeC THEN <<AddrC, AddrB>>
    ELSE IF node = NodeD THEN <<AddrD, AddrB>>
    ELSE IF node = NodeE THEN <<AddrC>>
    ELSE << >>

SelectSeq2(s, Keep(_)) ==
    LET idx == {k \in 1 .. Len(s) : Keep(s[k])}
    IN  [k \in 1 .. Cardinality(idx) |->
            s[CHOOSE j \in idx : Cardinality({i \in idx : i <= j}) = k]]

\* ShadowRouter::derive_action; history is the ShadowRouterHistory, asked and
\* updated for broadcasts under the key (source, sequence number)
derive_action(history, rule, source, relay_from, seq) ==
    IF rule.type = "Direct" THEN [action |-> Local, history |-> history]
    ELSE IF rule.type = "ToNode"
    THEN IF rule.node = NodeA THEN [action |-> Local, history |-> history]
         ELSE LET hops == SelectSeq2(ShadowRoutes(rule.node),
                                     LAMBDA a : ~(relay_from.some /\ NodeAt(a) = relay_from.val))
              IN  [action |-> IF Len(hops) = 0 THEN Reject ELSE NextTo(hops[1]),
                   history |-> history]
    ELSE IF <<source, seq>> \in history THEN [action |-> Reject, history |-> history]
    ELSE [action |-> BroadcastTo(TRUE,
                        SelectSeq2(<<AddrB, AddrC, AddrD>>,
                                   LAMBDA a : ~(relay_from.some /\ NodeAt(a) = relay_from.val))),
          history |-> history \cup {<<source, seq>>}]

\* ---- DataPlane ----
UdpPacket(remote, buf) == [type |-> "UdpPacket", remote |-> remote, buf |-> buf]
UdpPackets(remotes, buf) == [type |-> "UdpPackets", remotes |-> remotes, buf |-> buf]
NetNeighbour(remote, control) == [type |-> "NetNeighbour", remote |-> remote, control |-> control]
NetRemote(feature, conn, buf) == [type |-> "NetRemote", feature |-> feature, conn |-> conn, buf |-> buf]

NoAction == [kind |-> "None"]

\* DataPlane::new; log is the action of the last log::debug of incoming_route,
\* features the network messages handed to the feature workers and not yet
\* forwarded to the controller
DataPlane_new ==
    [conns         |-> [a \in Addrs |-> None],
     conns_reverse |-> [c \in ConnIds |-> None],
     queue         |-> << >>,
     features      |-> << >>,
     history       |-> {},
     panicked      |-> FALSE,
     log           |-> NoAction]

\* the features whose worker on_network_raw hands a datagram to: Neighbours,
\* Data, RouterSync, Vpn
NetworkRawFeatures == 0 .. 3

\* FeatureWorkerManager::on_network_raw: the worker of the feature takes the
\* datagram, any other id gives None
on_network_raw(d, feature, conn, remote, buf) ==
    IF feature \in NetworkRawFeatures
    THEN [d EXCEPT !.features = Append(@, [feature |-> feature, conn |-> conn,
                                           remote |-> remote, buf |-> buf])]
    ELSE d

build_send_to_from_mut(conn, remote, buf) ==
    LET enc == encrypt_if_need(conn, buf)
    IN  IF enc.some THEN Some(UdpPacket(remote, enc.val)) ELSE None

\* result: the data plane (its queue holds the packets of all but the last
\* remote) and the output for the last remote
build_send_to_multi_from_mut(d, remotes, buf) ==
    IF is_secure(buf[1])
    THEN IF Len(remotes) = 0 THEN [d |-> d, out |-> None]
         ELSE LET first == remotes[Len(remotes)]
                  rest  == SelectSeq2(SubSeq(remotes, 1, Len(remotes) - 1),
                                LAMBDA a : /\ d.conns[a].some
                                           /\ encrypt_if_need(d.conns[a].val, buf).some)
                  d1    == [d EXCEPT !.queue = @ \o
                                [k \in 1 .. Len(rest) |->
                                    UdpPacket(rest[k],
                                              encrypt_if_need(d.conns[rest[k]].val, buf).val)]]
              IN  IF ~d.conns[first].some THEN [d |-> d1, out |-> None]
                  ELSE [d |-> d1, out |-> build_send_to_from_mut(d.conns[first].val, first, buf)]
    ELSE [d |-> d, out |-> Some(UdpPackets(remotes, buf))]

PushOut(d, out) == IF out.some THEN [d EXCEPT !.queue = Append(@, out.val)] ELSE d

\* the RouteAction::Next arm
incoming_next(d, remote, buf) ==
    LET t == decrease_ttl(buf)
    IN  IF ~d.conns[remote].some THEN d
        ELSE PushOut(d, build_send_to_from_mut(d.conns[remote].val, remote, t.buf))

\* the RouteAction::Broadcast arm
incoming_broadcast(d, conn, from, header, local, remotes, buf) ==
    LET t  == decrease_ttl(buf)
        d1 == IF local /\ header.feature \in FeatureIds
              THEN on_network_raw(d, header.feature, conn.conn, from, t.buf)
              ELSE d
        m  == build_send_to_multi_from_mut(d1, remotes, t.buf)
    IN  IF ~t.ok THEN d
        ELSE IF Len(remotes) = 0 THEN d1
        ELSE PushOut(m.d, m.out)

\* the RouteAction::Local arm without the conversion of the feature id
incoming_local_AnyFeature(d, conn, remote, header, buf) ==
    [d EXCEPT !.features = Append(@, [feature |-> header.feature, conn |-> conn.conn,
                                      remote |-> remote, buf |-> buf])]

\* the RouteAction::Local arm
incoming_local(d, conn, remote, header, buf) ==
    IF header.feature \in FeatureIds
    THEN on_network_raw(d, header.feature, conn.conn, remote, buf)
    ELSE d

\* match action that hands a rejected datagram to the local feature
match_action_RejectDelivers(d, action, conn, remote, header, buf) ==
    IF action.kind \in {"Reject", "Local"} THEN incoming_local(d, conn, remote, header, buf)
    ELSE IF action.kind = "Next" THEN incoming_next(d, action.remote, buf)
    ELSE incoming_broadcast(d, conn, remote, header, action.local, action.remotes, buf)

\* match action { Reject, Local, Next, Broadcast } of incoming_route
match_action(d, action, conn, remote, header, buf) ==
    IF action.kind = "Reject" THEN d
    ELSE IF action.kind = "Local" THEN incoming_local(d, conn, remote, header, buf)
    ELSE IF action.kind = "Next" THEN incoming_next(d, action.remote, buf)
    ELSE incoming_broadcast(d, conn, remote, header, action.local, action.remotes, buf)

\* incoming_route that asks for the action without naming the sender
route_from_conn_NoRelayFrom(d, conn, remote, buf0) ==
    IF Len(buf0) = 0 THEN [d EXCEPT !.panicked = TRUE]
    ELSE LET dec  == IF is_secure(buf0[1]) THEN decrypt_if_need(conn, buf0) ELSE Some(buf0)
         IN  IF ~dec.some THEN d
             ELSE LET buf == dec.val
                      hdr == HeaderTryFrom(buf)
                  IN  IF ~hdr.ok THEN d
                      ELSE LET header == hdr.val
                               r  == derive_action(d.history, header.route, header.from_node,
                                                   None, header.flags)
                               d1 == [d EXCEPT !.history = r.history, !.log = r.action]
                           IN  match_action(d1, r.action, conn, remote, header, buf)

\* incoming_route once the connection of the sender is found; reading buf[0]
\* of an empty buffer is an index out of bounds
route_from_conn(d, conn, remote, buf0) ==
    IF Len(buf0) = 0 THEN [d EXCEPT !.panicked = TRUE]
    ELSE LET dec  == IF is_secure(buf0[1]) THEN decrypt_if_need(conn, buf0) ELSE Some(buf0)
         IN  IF ~dec.some THEN d
             ELSE LET buf == dec.val
                      hdr == HeaderTryFrom(buf)
                  IN  IF ~hdr.ok THEN d
                      ELSE LET header == hdr.val
                               r  == derive_action(d.history, header.route, header.from_node,
                                                   Some(conn.node), header.flags)
                               d1 == [d EXCEPT !.history = r.history, !.log = r.action]
                           IN  match_action(d1, r.action, conn, remote, header, buf)

\* incoming_route that takes the connection of another peer when the sender
\* has none
incoming_route_AnyConn(d, remote, buf0) ==
    IF d.conns[remote].some THEN route_from_conn(d, d.conns[remote].val, remote, buf0)
    ELSE IF \E a \in Addrs : d.conns[a].some
    THEN route_from_conn(d, d.conns[CHOOSE a \in Addrs : d.conns[a].some].val, remote, buf0)
    ELSE d

incoming_route(d, remote, buf0) ==
    IF ~d.conns[remote].some THEN d
    ELSE route_from_conn(d, d.conns[remote].val, remote, buf0)

\* on_event for a datagram, without the test for an empty buffer
on_udp_packet_NoEmptyCheck(d, remote, buf) ==
    IF Len(buf) > 0 /\ NeighboursControlTryFrom(buf).ok
    THEN [d EXCEPT !.queue = Append(@, NetNeighbour(remote, NeighboursControlTryFrom(buf).val))]
    ELSE incoming_route(d, remote, buf)

\* on_event(Input::Net(NetInput::UdpPacket(remote, buf)))
on_udp_packet(d, remote, buf) ==
    IF Len(buf) = 0 THEN d
    ELSE IF NeighboursControlTryFrom(buf).ok
    THEN [d EXCEPT !.queue = Append(@, NetNeighbour(remote, NeighboursControlTryFrom(buf).val))]
    ELSE incoming_route(d, remote, buf)

\* on_event(Input::Event(LogicEvent::Pin(conn, node, addr, secure)))
on_pin(d, conn, node, addr, secure) ==
    [d EXCEPT !.conns[addr] = Some(DataPlaneConnection(node, conn, addr, secure)),
              !.conns_reverse[conn] = Some(addr)]

\* on_event(Input::Event(LogicEvent::UnPin(conn)))
on_unpin(d, conn) ==
    IF d.conns_reverse[conn].some
    THEN [d EXCEPT !.conns_reverse[conn] = None,
                   !.conns[d.conns_reverse[conn].val] = None]
    ELSE d

\* pop_features: a feature worker forwards a network message to the controller
pop_features(d) ==
    IF Len(d.features) = 0 THEN d
    ELSE LET f == Head(d.features)
         IN  [d EXCEPT !.features = Tail(@),
                       !.queue = Append(@, NetRemote(f.feature, f.conn, f.buf))]

\* TaskSwitcherChild::pop_output
pop_output(d) ==
    LET d1 == IF Len(d.queue) > 0 THEN d ELSE pop_features(d)
    IN  IF Len(d1.queue) > 0
        THEN [d |-> [d1 EXCEPT !.queue = Tail(@)], out |-> Some(Head(d1.queue))]
        ELSE [d |-> d1, out |-> None]

\* ---- inputs of the data-plane specification ----
Payload == <<9>>

ToNodePacket(secure, feature, ttl, node) ==
    build_raw(Header(secure, feature, ttl, 0, None, [type |-> "ToNode", node |-> node]), Payload)

\* a broadcast of NodeE with sequence number seq
BroadcastPacket(secure, ttl, seq) ==
    build_raw(Header(secure, FeatureData, ttl, seq, Some(NodeE), [type |-> "Broadcast"]), Payload)

EmptyDatagram == << >>
ControlDatagram == <<255, 1>>
TruncatedDatagram == <<4, 1>>
UnknownFeatureDatagram == ToNodePacket(FALSE, 200, 1, NodeA)
ForgedDatagram == <<32, 9, 9>>

Datagrams ==
    {EmptyDatagram, ControlDatagram, TruncatedDatagram, ForgedDatagram,
     UnknownFeatureDatagram,
     ToNodePacket(FALSE, FeatureData, 2, NodeD),
     ToNodePacket(FALSE, FeatureData, 0, NodeD),
     ToNodePacket(FALSE, FeatureData, 1, NodeA),
     ToNodePacket(FALSE, FeatureData, 1, NodeE),
     BroadcastPacket(FALSE, 1, 1),
     BroadcastPacket(FALSE, 0, 1),
     Seal(CipherKey, ToNodePacket(TRUE, FeatureData, 1, NodeD)),
     Seal(CipherKey, ToNodePacket(TRUE, FeatureData, 0, NodeD)),
     Seal(CipherKey, BroadcastPacket(TRUE, 1, 1))}

\* the Pin events of the controller: connection, address and key; connection
\* 3 is opened to AddrD or, like connection 1, to AddrB
PinChoices ==
    {<<1, AddrB, Some(CipherKey)>>, <<1, AddrB, None>>, <<2, AddrC, Some(CipherKey)>>,
     <<3, AddrD, Some(CipherKey)>>, <<3, AddrB, Some(CipherKey)>>}

NoEvent == [kind |-> "new", conn |-> 0, remote |-> 0, buf |-> << >>]

\* dp.plane is the DataPlane; last is the event just handled, outs the outputs
\* it queued, fed the messages it handed to the feature workers and popped the
\* result of pop_output; pinned maps every connection to the address of its
\* last Pin since its last UnPin, origin is the address that the broadcast on
\* record in the history first came from
DpState(d, before, kind, conn, remote, buf, popped) ==
    [plane  |-> d,
     pinned |-> IF kind = "Pin" THEN [dp.pinned EXCEPT ![conn] = Some(remote)]
                ELSE IF kind = "UnPin" THEN [dp.pinned EXCEPT ![conn] = None]
                ELSE dp.pinned,
     origin |-> IF d.history # before.history THEN remote ELSE dp.origin,
     last   |-> [kind |-> kind, conn |-> conn, remote |-> remote, buf |-> buf],
     outs   |-> SubSeq(d.queue, Len(before.queue) + 1, Len(d.queue)),
     fed    |-> SubSeq(d.features, Len(before.features) + 1, Len(d.features)),
     popped |-> popped]

Quiet(d) == [d EXCEPT !.log = NoAction]

InitDP ==
    /\ table = Table_new(NodeA, 0)
    /\ op = NoOp
    /\ net = NetIdle
    /\ links = {}
    /\ removals = 0
    /\ ticked = {}
    /\ rounds = 0
    /\ cp = PlaneIdle
    /\ kv = PlaneIdle
    /\ xw = PlaneIdle
    /\ internal = PlaneIdle
    /\ fm = PlaneIdle
    /\ tcp = PlaneIdle
    /\ dp = [plane |-> DataPlane_new, pinned |-> [c \in ConnIds |-> None], origin |-> 0,
             last |-> NoEvent, outs |-> << >>, fed |-> << >>, popped |-> None]

DpPin ==
    \E pin \in PinChoices :
        /\ ~dp.plane.panicked
        /\ dp' = DpState(on_pin(Quiet(dp.plane), pin[1], NodeAt(pin[2]), pin[2], pin[3]),
                         dp.plane, "Pin", pin[1], pin[2], << >>, None)
        /\ UNCHANGED <<table, op, net, links, removals, ticked, rounds, cp, kv, xw, internal, fm, tcp>>

DpUnPin ==
    \E conn \in ConnIds :
        /\ ~dp.plane.panicked
        /\ dp' = DpState(on_unpin(Quiet(dp.plane), conn), dp.plane, "UnPin", conn, 0, << >>, None)
        /\ UNCHANGED <<table, op, net, links, removals, ticked, rounds, cp, kv, xw, internal, fm, tcp>>

DpUdpPacket ==
    \E remote \in Addrs, buf \in Datagrams :
        /\ ~dp.plane.panicked
        /\ Len(dp.plane.queue) + Len(dp.plane.features) <= MaxPending
        /\ dp' = DpState(on_udp_packet(Quiet(dp.plane), remote, buf),
                         dp.plane, "UdpPacket", 0, remote, buf, None)
        /\ UNCHANGED <<table, op, net, links, removals, ticked, rounds, cp, kv, xw, internal, fm, tcp>>

DpPopOutput ==
    /\ ~dp.plane.panicked
    /\ LET r == pop_output(Quiet(dp.plane))
       IN  dp' = DpState(r.d, r.d, "pop_output", 0, 0, << >>, r.out)
    /\ UNCHANGED <<table, op, net, links, removals, ticked, rounds, cp, kv, xw, internal, fm, tcp>>

NextDP == DpPin \/ DpUnPin \/ DpUdpPacket \/ DpPopOutput

SpecDP == InitDP /\ [][NextDP]_vars

\* ---- direct sends of the feature workers ----
build_send_to(conn, remote, buf) ==
    IF is_secure(buf[1]) THEN build_send_to_from_mut(conn, remote, buf)
    ELSE Some(UdpPacket(remote, buf))

\* pop_features, FeatureWorkerOutput::SendDirect(conn, meta, buf): the header
\* is that of a Direct message of the feature; a failed expect is a panic
pop_features_SendDirect(d, feature, conn, secure, buf) ==
    IF ~d.conns_reverse[conn].some THEN d
    ELSE LET addr == d.conns_reverse[conn].val
             msg  == build_raw(Header(secure, feature, 1, 0, None, [type |-> "Direct"]), buf)
         IN  IF ~d.conns[addr].some THEN [d EXCEPT !.panicked = TRUE]
             ELSE LET out == build_send_to_from_mut(d.conns[addr].val, addr, msg)
                  IN  IF out.some THEN PushOut(d, out) ELSE [d EXCEPT !.panicked = TRUE]

\* pop_features, FeatureWorkerOutput::RawDirect(conn, buf)
pop_features_RawDirect(d, conn, buf) ==
    IF ~d.conns_reverse[conn].some THEN d
    ELSE LET addr == d.conns_reverse[conn].val
         IN  IF ~d.conns[addr].some THEN [d EXCEPT !.panicked = TRUE]
             ELSE LET out == build_send_to(d.conns[addr].val, addr, buf)
                  IN  IF out.some THEN PushOut(d, out) ELSE [d EXCEPT !.panicked = TRUE]

\* a feature worker has a direct message for a connection: pop_output polls
\* it when the queue is empty
DpDirect ==
    \E conn \in ConnIds, kind \in {"SendDirect", "RawDirect"} :
        /\ ~dp.plane.panicked
        /\ Len(dp.plane.queue) = 0
        /\ LET d == IF kind = "SendDirect"
                    THEN pop_features_SendDirect(Quiet(dp.plane), FeatureData, conn, FALSE, Payload)
                    ELSE pop_features_RawDirect(Quiet(dp.plane), conn,
                                                ToNodePacket(FALSE, FeatureData, 1, NodeD))
           IN  dp' = DpState(d, dp.plane, kind, conn, 0, << >>, None)
        /\ UNCHANGED <<table, op, net, links, removals, ticked, rounds, cp, kv, xw, internal, fm, tcp>>

NextDPConn == DpPin \/ DpUnPin \/ DpDirect \/ DpPopOutput

SpecDPConn == InitDP /\ [][NextDPConn]_vars

(***************************************************************************)
(* Properties of the data plane                                            *)
(***************************************************************************)
\* the datagram of the last event as the data plane reads it after decrypting
Arrived ==
    LET buf == dp.last.buf
    IN  IF Len(buf) > 0 /\ is_secure(buf[1]) THEN Unseal(CipherKey, buf) ELSE Some(buf)

\* header of a datagram that decrypts and parses, Err otherwise
Decoded(buf) ==
    IF Len(buf) = 0 THEN Err
    ELSE IF is_secure(buf[1])
    THEN IF Unseal(CipherKey, buf).some THEN HeaderTryFrom(Unseal(CipherKey, buf).val) ELSE Err
    ELSE HeaderTryFrom(buf)

\* the buffer of a queued packet as its receiver reads it
Opened(out) == IF is_secure(out.buf[1]) THEN Unseal(CipherKey, out.buf).val ELSE out.buf

Routed(kinds) == dp.last.kind = "UdpPacket" /\ dp.plane.log.kind \in kinds

\* C12: a datagram whose action is Next and whose ttl is exhausted queues no
\* output.
C12_ExpiredNextDropped ==
    (Routed({"Next"}) /\ TtlOf(Arrived.val) = 0) => dp.outs = << >>

\* C13: every packet queued, and every message handed to the local feature,
\* for a datagram whose action is Next or Broadcast carries the ttl of the
\* datagram minus one.
C13_TtlOneLower ==
    Routed({"Next", "Broadcast"}) =>
        /\ \A k \in 1 .. Len(dp.outs) : TtlOf(Opened(dp.outs[k])) = TtlOf(Arrived.val) - 1
        /\ \A k \in 1 .. Len(dp.fed) : TtlOf(dp.fed[k].buf) = TtlOf(Arrived.val) - 1

IsBroadcast(buf) == Decoded(buf).ok /\ Decoded(buf).val.route.type = "Broadcast"

HistoryKey(buf) == <<Decoded(buf).val.from_node, Decoded(buf).val.flags>>

\* C14: a broadcast datagram whose (source, sequence number) is on record in
\* the history yields no output, no local delivery and no forward, whatever
\* remote it comes from: the action is Reject and the data plane is unchanged.
C14_BroadcastDedup ==
    [][(/\ dp'.last.kind = "UdpPacket"
        /\ IsBroadcast(dp'.last.buf)
        /\ HistoryKey(dp'.last.buf) \in dp.plane.history)
       => /\ dp'.outs = << >>
          /\ dp'.fed = << >>
          /\ dp'.plane.log.kind \in {"Reject", "None"}
          /\ Quiet(dp'.plane) = Quiet(dp.plane)]_vars

\* the broadcast first came in from NodeB and was fanned out; it now comes in
\* again from NodeC and is rejected
C14_Witness ==
    /\ dp.last.kind = "UdpPacket"
    /\ dp.last.remote = AddrC
    /\ dp.origin = AddrB
    /\ dp.last.buf = BroadcastPacket(FALSE, 1, 1)
    /\ dp.plane.log = Reject
    /\ dp.outs = << >>
    /\ dp.fed = << >>

\* C15: the data plane holds a DataPlaneConnection for exactly the pinned
\* connections: the connection of every address is that of a pinned
\* connection, and every pinned connection has one at its address.
C15_ConnsMatchPins ==
    /\ \A a \in Addrs :
            dp.plane.conns[a].some => dp.pinned[dp.plane.conns[a].val.conn].some
    /\ \A c \in ConnIds :
            dp.pinned[c].some => dp.plane.conns[dp.pinned[c].val].some

\* C32: every connection of conns_reverse maps to an address that has a
\* DataPlaneConnection of that connection in conns, and no direct send of a
\* feature worker panics.
C32_ReverseMatchesConns ==
    /\ ~dp.plane.panicked
    /\ \A c \in ConnIds :
            dp.plane.conns_reverse[c].some
                => /\ dp.plane.conns[dp.plane.conns_reverse[c].val].some
                   /\ dp.plane.conns[dp.plane.conns_reverse[c].val].val.conn = c

\* C16: a datagram that is no NeighboursControl and comes from an address
\* without a connection queues nothing, hands nothing to the feature workers
\* and leaves connections, queue, workers and history as they were.
C16_UnknownRemoteDropped ==
    [][(/\ dp'.last.kind = "UdpPacket"
        /\ ~NeighboursControlTryFrom(dp'.last.buf).ok
        /\ ~dp.plane.conns[dp'.last.remote].some)
       => /\ dp'.outs = << >>
          /\ dp'.fed = << >>
          /\ dp'.plane.log = NoAction
          /\ Quiet(dp'.plane) = Quiet(dp.plane)]_vars

\* a routable datagram arrives from AddrC, which is not pinned, while AddrB
\* and the next hop AddrD are
C16_Witness ==
    /\ dp.last.kind = "UdpPacket"
    /\ dp.last.remote = AddrC
    /\ dp.last.buf = ToNodePacket(FALSE, FeatureData, 2, NodeD)
    /\ ~dp.plane.conns[AddrC].some
    /\ dp.plane.conns[AddrB].some
    /\ dp.plane.conns[AddrD].some
    /\ dp.outs = << >>

PinnedAddrs == {dp.pinned[c].val : c \in {x \in ConnIds : dp.pinned[x].some}}

\* the datagrams queued by the last event for address a: the UdpPacket outputs
\* to a and the places of a in the remotes of the UdpPackets outputs
Toward(a) ==
    UNION {IF dp.outs[k].type = "UdpPacket"
           THEN (IF dp.outs[k].remote = a THEN {<<k, 0>>} ELSE {})
           ELSE IF dp.outs[k].type = "UdpPackets"
           THEN {<<k, j>> : j \in {i \in 1 .. Len(dp.outs[k].remotes) : dp.outs[k].remotes[i] = a}}
           ELSE {} : k \in 1 .. Len(dp.outs)}

\* C23: a datagram of a known feature whose action is Broadcast(local,
\* remotes) and whose ttl is not exhausted is handed to the local feature
\* worker once when local is set and not at all otherwise, and exactly one
\* datagram is queued toward every remote of the action that a connection is
\* pinned to (all connections holding a key), none toward any other address.
C23_BroadcastFanOut ==
    ( /\ Routed({"Broadcast"})
      /\ TtlOf(Arrived.val) > 0
      /\ Decoded(dp.last.buf).val.feature \in FeatureIds
      /\ \A a \in Addrs : dp.plane.conns[a].some => dp.plane.conns[a].val.secure.some )
    => /\ Len(dp.fed) = (IF dp.plane.log.local THEN 1 ELSE 0)
       /\ \A a \in Addrs :
            IF a \in SeqToSet(dp.plane.log.remotes)
            THEN a \in PinnedAddrs => Cardinality(Toward(a)) = 1
            ELSE Toward(a) = {}

\* the next hops toward node other than the address a
OtherHops(node, a) == {b \in SeqToSet(ShadowRoutes(node)) : b # a}

\* C24: a datagram with rule ToNode(n), n not the local node, that the data
\* plane routes is never sent back to the address it came from: its action is
\* Next to another address or Reject, nothing is queued toward the sender, and
\* when the sender is the only next hop toward n the action is Reject and
\* nothing is queued or delivered.
C24_NeverBackToSender ==
    ( /\ dp.last.kind = "UdpPacket"
      /\ dp.plane.log # NoAction
      /\ Decoded(dp.last.buf).val.route.type = "ToNode"
      /\ Decoded(dp.last.buf).val.route.node # NodeA )
    => LET n == Decoded(dp.last.buf).val.route.node
       IN  /\ dp.plane.log.kind \in {"Next", "Reject"}
           /\ dp.plane.log.kind = "Next" => dp.plane.log.remote # dp.last.remote
           /\ Toward(dp.last.remote) = {}
           /\ OtherHops(n, dp.last.remote) = {}
                => (dp.plane.log = Reject /\ dp.outs = << >> /\ dp.fed = << >>)

\* a datagram for NodeD that came from NodeD's own address, the best next hop,
\* is sent on to AddrB
C24_Witness ==
    /\ dp.last.kind = "UdpPacket"
    /\ dp.last.remote = AddrD
    /\ dp.last.buf = ToNodePacket(FALSE, FeatureData, 2, NodeD)
    /\ dp.plane.log = NextTo(AddrB)
    /\ Cardinality(Toward(AddrB)) = 1
    /\ Toward(AddrD) = {}

\* C25: a datagram whose action is Local and whose feature id is the id of no
\* feature is dropped: no feature worker is handed it, nothing is queued, and
\* the data plane does not panic.
C25_UnknownFeatureDropped ==
    ( /\ Routed({"Local"})
      /\ Decoded(dp.last.buf).val.feature \notin FeatureIds )
    => /\ dp.fed = << >>
       /\ dp.outs = << >>
       /\ ~dp.plane.panicked

\* the datagram of feature id 200 for the local node arrived over a pinned
\* connection and was routed Local
C25_Witness ==
    /\ Routed({"Local"})
    /\ dp.last.buf = UnknownFeatureDatagram
    /\ dp.plane.conns[dp.last.remote].some
    /\ dp.plane.features = << >>

\* C28: apply_sync(src_conn, ..) takes a path over src_conn away only from
\* slots the sync does not mention: a slot that the sync mentions and that held
\* a path over src_conn before the call holds one after it, whether Metric::add
\* accepts its entry or not.
C28_MentionedKeepsPath ==
    [][op'.kind = "apply_sync" =>
        \A i \in Mentioned(op'.sync) \ {SelfIndex(table)} :
            DestHasConn(table.dests[i], op'.conn) => DestHasConn(table'.dests[i], op'.conn)]_vars

\* the paths of slot i that do not go through node
Avoiding(t, i, node) ==
    {p \in t.dests[i] : p.node # node /\ ~InHops(node, p.metric.hops)}

\* C29: a sync_for(remote) that returns Some lists, in strictly ascending slot
\* order (so each slot once), exactly the slots other than the local one that
\* hold a path not going through remote, each with the metric of the best of
\* those paths.
C29_SyncForContents ==
    \A n \in QueryNodes :
        LET r == sync_for(table, n)
        IN  r.some =>
              /\ \A k, j \in 1 .. Len(r.val) : k < j => r.val[k][1] < r.val[j][1]
              /\ SyncSlots(r) = {i \in SlotRange \ {SelfIndex(table)} :
                                    Avoiding(table, i, n) # {}}
              /\ \A k \in 1 .. Len(r.val) :
                    \E p \in Avoiding(table, r.val[k][1], n) :
                        /\ p.metric = r.val[k][2]
                        /\ \A q \in Avoiding(table, r.val[k][1], n) : ~PathLess(q, p)

\* a sync that leaves out a slot reached through the remote only, picks the
\* better of two paths for another slot and skips the local slot although it
\* holds a path
C29_Witness ==
    \E n \in DestNodes :
        LET r == sync_for(table, n)
        IN  /\ r.some
            /\ \E i \in SlotRange \ {SelfIndex(table)} :
                    ~DestIsEmpty(table.dests[i]) /\ Avoiding(table, i, n) = {}
            /\ \E k \in 1 .. Len(r.val) :
                    Cardinality(Avoiding(table, r.val[k][1], n)) >= 2
            /\ ~DestIsEmpty(table.dests[SelfIndex(table)])

(***************************************************************************)
(* Controller plane (packages/network/src/controller_plane.rs): the three  *)
(* sub-engines (neighbours, features, services) behind on_tick, on_event   *)
(* and pop_output.  The sub-engines and TasksSwitcher are not part of the  *)
(* available sources: a sub-engine is the queue of the outputs it has      *)
(* produced and not yet handed out, and it answers an input with a burst   *)
(* of outputs; the switcher follows its written description.               *)
(***************************************************************************)
\* outputs the three sub-engines can hold together
MaxHeld == 3
\* outputs a sub-engine produces for one input of on_event
MaxBurst == 2

NEIGHBOURS_ID == 0
FEATURES_ID == 1
SERVICES_ID == 2

\* TasksSwitcher<3>
TASKS == 3

Tasks == {NEIGHBOURS_ID, FEATURES_ID, SERVICES_ID}

\* outputs of the sub-engines: the first of each pair becomes an output of the
\* plane, the second is consumed inside the plane
\*   neighbours: Output::Control, Output::Event(ConnectionEvent::Stats)
\*               (and see ConnectionEvents for Connected and Disconnected)
\*   features:   FeatureOutput::ToWorkers, FeatureOutput::Event(Service(..), ..)
\*   services:   ServiceOutput::Event, ServiceOutput::FeatureControl
OutputKinds(task) ==
    IF task = NEIGHBOURS_ID THEN {"Control", "Stats"}
    ELSE IF task = FEATURES_ID THEN {"ToWorkers", "ServiceEvent"}
    ELSE {"Event", "FeatureControl"}

\* Output::Event(ConnectionEvent::..) of the neighbours manager; Connected and
\* Disconnected become an output of the plane as well
ConnectionEvents == {"Connected", "Disconnected", "Stats"}

Forwarded(kind) == kind \in {"Control", "ToWorkers", "Event", "Connected", "Disconnected"}

\* ---- TasksSwitcher ----
\* idle counts the polls without output since the last output
Switcher_default == [current |-> 0, idle |-> 0]

\* current(): None, and a new cycle, after a full cycle without output
Switcher_current(sw) ==
    IF sw.idle >= TASKS
    THEN [sw |-> [sw EXCEPT !.idle = 0], cur |-> None]
    ELSE [sw |-> sw, cur |-> Some(sw.current)]

\* process(res): stay on the task that gave an output, advance otherwise
Switcher_process(sw, res) ==
    IF res.some THEN [sw EXCEPT !.idle = 0]
    ELSE [current |-> (sw.current + 1) % TASKS, idle |-> sw.idle + 1]

\* ---- sub-engines ----
\* a sub-engine that receives an input appends the outputs it answers with
Held(c) ==
    Len(c.queues[NEIGHBOURS_ID]) + Len(c.queues[FEATURES_ID]) + Len(c.queues[SERVICES_ID])

Feed(c, task, burst) ==
    IF Held(c) + Len(burst) <= MaxHeld
    THEN [c EXCEPT !.queues[task] = @ \o burst]
    ELSE c

\* ---- ControllerPlane ----
ControllerPlane_new ==
    [queues    |-> [t \in Tasks |-> << >>],
     last_task |-> None,
     switcher  |-> Switcher_default]

\* on_tick: every sub-engine is ticked
on_tick(c, bursts) ==
    LET c0 == [c EXCEPT !.last_task = None]
        c1 == Feed(c0, NEIGHBOURS_ID, bursts[NEIGHBOURS_ID])
        c2 == Feed(c1, FEATURES_ID, bursts[FEATURES_ID])
    IN  Feed(c2, SERVICES_ID, bursts[SERVICES_ID])

\* on_event for an input of sub-engine task
on_event(c, task, burst) ==
    Feed([c EXCEPT !.last_task = Some(task)], task, burst)

PlaneOutput(task, kind) == [task |-> task, kind |-> kind]

\* react[t] is the burst sub-engine t answers with when it is given an input
\* while an output is popped
\* on_shared_input(Connection(event)) as the manager of sub-engine to sees it
SharedInput(to, event) == [to |-> to, event |-> event]

\* LogicEvent::Pin for Connected, LogicEvent::UnPin for Disconnected
LogicEvent(event) ==
    IF event = "Connected" THEN Some(PlaneOutput(NEIGHBOURS_ID, "Pin"))
    ELSE IF event = "Disconnected" THEN Some(PlaneOutput(NEIGHBOURS_ID, "UnPin"))
    ELSE None

\* pop_neighbours that hands a connection event to the feature manager only
pop_neighbours_FeaturesOnly(c, react) ==
    IF Len(c.queues[NEIGHBOURS_ID]) = 0 THEN [c |-> c, out |-> None, shared |-> << >>]
    ELSE LET out == Head(c.queues[NEIGHBOURS_ID])
             c1  == [c EXCEPT !.queues[NEIGHBOURS_ID] = Tail(@)]
         IN  IF out = "Control"
             THEN [c |-> c1, out |-> Some(PlaneOutput(NEIGHBOURS_ID, out)), shared |-> << >>]
             ELSE [c |-> Feed(c1, FEATURES_ID, react[FEATURES_ID]),
                   out |-> LogicEvent(out),
                   shared |-> <<SharedInput(FEATURES_ID, out)>>]

\* the result names the shared inputs handed to the feature manager and to the
\* service manager, in the order of the calls
pop_neighbours(c, react) ==
    IF Len(c.queues[NEIGHBOURS_ID]) = 0 THEN [c |-> c, out |-> None, shared |-> << >>]
    ELSE LET out == Head(c.queues[NEIGHBOURS_ID])
             c1  == [c EXCEPT !.queues[NEIGHBOURS_ID] = Tail(@)]
         IN  IF out = "Control"
             THEN [c |-> c1, out |-> Some(PlaneOutput(NEIGHBOURS_ID, out)), shared |-> << >>]
             ELSE [c |-> Feed(Feed(c1, FEATURES_ID, react[FEATURES_ID]),
                              SERVICES_ID, react[SERVICES_ID]),
                   out |-> LogicEvent(out),
                   shared |-> <<SharedInput(FEATURES_ID, out), SharedInput(SERVICES_ID, out)>>]

pop_features_cp(c, react) ==
    IF Len(c.queues[FEATURES_ID]) = 0 THEN [c |-> c, out |-> None, shared |-> << >>]
    ELSE LET out == Head(c.queues[FEATURES_ID])
             c1  == [c EXCEPT !.queues[FEATURES_ID] = Tail(@)]
         IN  IF out = "ToWorkers"
             THEN [c |-> c1, out |-> Some(PlaneOutput(FEATURES_ID, out)), shared |-> << >>]
             ELSE [c |-> Feed(c1, SERVICES_ID, react[SERVICES_ID]), out |-> None,
                   shared |-> << >>]

pop_services(c, react) ==
    IF Len(c.queues[SERVICES_ID]) = 0 THEN [c |-> c, out |-> None, shared |-> << >>]
    ELSE LET out == Head(c.queues[SERVICES_ID])
             c1  == [c EXCEPT !.queues[SERVICES_ID] = Tail(@)]
         IN  IF out = "Event"
             THEN [c |-> c1, out |-> Some(PlaneOutput(SERVICES_ID, out)), shared |-> << >>]
             ELSE [c |-> Feed(c1, FEATURES_ID, react[FEATURES_ID]), out |-> None,
                   shared |-> << >>]

pop_task(c, task, react) ==
    IF task = NEIGHBOURS_ID THEN pop_neighbours(c, react)
    ELSE IF task = FEATURES_ID THEN pop_features_cp(c, react)
    ELSE pop_services(c, react)

RECURSIVE round_robin_AdvanceOnOutput(_, _)
\* the while loop of pop_output, moving on to the next task after an output too
round_robin_AdvanceOnOutput(c, react) ==
    LET cur == Switcher_current(c.switcher)
        c0  == [c EXCEPT !.switcher = cur.sw]
        r   == pop_task(c0, cur.cur.val, react)
        rest == round_robin_AdvanceOnOutput(
                    [r.c EXCEPT !.switcher = Switcher_process(c0.switcher, r.out)], react)
    IN  IF ~cur.cur.some THEN [c |-> c0, out |-> None, shared |-> << >>]
        ELSE IF r.out.some
        THEN [c |-> [r.c EXCEPT !.switcher =
                        [current |-> (c0.switcher.current + 1) % TASKS, idle |-> 0]],
              out |-> r.out, shared |-> r.shared]
        ELSE [rest EXCEPT !.shared = r.shared \o @]

RECURSIVE round_robin(_, _)
\* the while loop of pop_output
round_robin(c, react) ==
    LET cur == Switcher_current(c.switcher)
        c0  == [c EXCEPT !.switcher = cur.sw]
        r   == pop_task(c0, cur.cur.val, react)
        rest == round_robin([r.c EXCEPT !.switcher = Switcher_process(c0.switcher, r.out)],
                            react)
    IN  IF ~cur.cur.some THEN [c |-> c0, out |-> None, shared |-> << >>]
        ELSE IF r.out.some
        THEN [c |-> [r.c EXCEPT !.switcher = Switcher_process(c0.switcher, r.out)],
              out |-> r.out, shared |-> r.shared]
        ELSE [rest EXCEPT !.shared = r.shared \o @]

\* pop_output without the fall back to the switcher
pop_output_cp_LastTaskOnly(c, react) ==
    IF c.last_task.some
    THEN LET r == pop_task(c, c.last_task.val, react)
         IN  IF r.out.some THEN r
             ELSE [c |-> [r.c EXCEPT !.last_task = None], out |-> None, shared |-> r.shared]
    ELSE [c |-> c, out |-> None, shared |-> << >>]

pop_output_cp(c, react) ==
    IF c.last_task.some
    THEN LET r == pop_task(c, c.last_task.val, react)
         IN  IF r.out.some THEN r
             ELSE [c |-> [r.c EXCEPT !.last_task = None], out |-> None, shared |-> r.shared]
    ELSE round_robin(c, react)

(***************************************************************************)
(* The controller plane driven by its host: inputs, ticks and pops in any  *)
(* order.                                                                  *)
(***************************************************************************)
\* the bursts of at most n outputs of sub-engine task
BurstsOf(task, n) == UNION {[1 .. k -> OutputKinds(task)] : k \in 0 .. n}

HoldsConsumed(c) ==
    \E t \in Tasks : \E i \in 1 .. Len(c.queues[t]) : ~Forwarded(c.queues[t][i])

\* the answers of the sub-engines that are given an input while an output is
\* popped; none is given one unless an output consumed inside the plane is held
ReactsOf(c, task) == IF HoldsConsumed(c) THEN BurstsOf(task, 1) ELSE {<< >>}

Bursts3(bn, bf, bs) ==
    [t \in Tasks |-> IF t = NEIGHBOURS_ID THEN bn ELSE IF t = FEATURES_ID THEN bf ELSE bs]

HoldsForwarded(c, task) ==
    \E i \in 1 .. Len(c.queues[task]) : Forwarded(c.queues[task][i])

\* the sub-engines other than the one given an input that hold an output for
\* the caller at that moment
Peers(c, task) == {u \in Tasks \ {task} : HoldsForwarded(c, u)}

\* cp.plane is the ControllerPlane; last is the call just made (via tells which
\* branch of pop_output ran), popped the result of pop_output, owed the
\* sub-engine whose outputs of the last on_event are not all handed out yet,
\* waited the sub-engines that held an output when another one was given an
\* input and have had none returned since, and relieved tells that the output
\* just returned is one of such a sub-engine
CpState(c, kind, task, via, popped) ==
    [plane  |-> c,
     waited |-> IF kind = "on_event" THEN cp.waited \cup Peers(cp.plane, task.val)
                ELSE IF popped.some THEN cp.waited \ {popped.val.task}
                ELSE cp.waited,
     relieved |-> popped.some /\ popped.val.task \in cp.waited,
     last   |-> [kind |-> kind, task |-> task, via |-> via],
     popped |-> popped,
     owed   |-> IF kind = "on_event" THEN task
                ELSE IF kind = "pop_output" /\ cp.owed.some
                        /\ Len(c.queues[cp.owed.val]) > 0 THEN cp.owed
                ELSE None]

InitCP ==
    /\ table = Table_new(NodeA, 0)
    /\ op = NoOp
    /\ net = NetIdle
    /\ links = {}
    /\ removals = 0
    /\ ticked = {}
    /\ rounds = 0
    /\ kv = PlaneIdle
    /\ xw = PlaneIdle
    /\ internal = PlaneIdle
    /\ fm = PlaneIdle
    /\ tcp = PlaneIdle
    /\ dp = PlaneIdle
    /\ cp = [plane  |-> ControllerPlane_new,
             waited |-> {},
             relieved |-> FALSE,
             last   |-> [kind |-> "new", task |-> None, via |-> "none"],
             popped |-> None,
             owed   |-> None]

CpTick ==
    /\ \E bn \in BurstsOf(NEIGHBOURS_ID, 1), bf \in BurstsOf(FEATURES_ID, 1),
          bs \in BurstsOf(SERVICES_ID, 1) :
          cp' = CpState(on_tick(cp.plane, Bursts3(bn, bf, bs)), "on_tick", None, "none", None)
    /\ UNCHANGED <<table, op, net, links, removals, ticked, rounds, dp, kv, xw, internal, fm, tcp>>

CpEvent ==
    /\ \E task \in Tasks : \E burst \in BurstsOf(task, MaxBurst) :
          /\ Held(cp.plane) + Len(burst) <= MaxHeld
          /\ cp' = CpState(on_event(cp.plane, task, burst), "on_event", Some(task), "none", None)
    /\ UNCHANGED <<table, op, net, links, removals, ticked, rounds, dp, kv, xw, internal, fm, tcp>>

CpPopOutput ==
    /\ \E bf \in ReactsOf(cp.plane, FEATURES_ID), bs \in ReactsOf(cp.plane, SERVICES_ID) :
          LET r == pop_output_cp(cp.plane, Bursts3(<< >>, bf, bs))
          IN  cp' = CpState(r.c, "pop_output", None,
                            IF cp.plane.last_task.some THEN "last_task" ELSE "round_robin",
                            r.out)
    /\ UNCHANGED <<table, op, net, links, removals, ticked, rounds, dp, kv, xw, internal, fm, tcp>>

NextCP == CpTick \/ CpEvent \/ CpPopOutput

SpecCP == InitCP /\ [][NextCP]_vars

(***************************************************************************)
(* Claims about the controller plane                                       *)
(***************************************************************************)
\* the first output in queue q that becomes an output of the plane
FirstForwarded(q) ==
    q[CHOOSE i \in 1 .. Len(q) : Forwarded(q[i]) /\ \A j \in 1 .. (i - 1) : ~Forwarded(q[j])]

Popping == cp'.last.kind = "pop_output"

\* C18: after on_event gave an input to a sub-engine, and for as long as that
\* sub-engine still holds an output for the caller, an output returned by
\* pop_output is that sub-engine's next one, never one of another sub-engine.
C18_LastTaskDrainedFirst ==
    [][(Popping /\ cp.owed.some /\ HoldsForwarded(cp.plane, cp.owed.val) /\ cp'.popped.some)
        => cp'.popped.val = PlaneOutput(cp.owed.val,
                                        FirstForwarded(cp.plane.queues[cp.owed.val]))]_vars

\* pop_output has just returned an output of sub-engine t through the
\* round-robin branch, and t and another sub-engine still hold outputs that
\* all go to the caller
TwoBuffered(t) ==
    /\ cp.last.kind = "pop_output" /\ cp.last.via = "round_robin"
    /\ cp.popped.some /\ cp.popped.val.task = t
    /\ ~cp.plane.last_task.some
    /\ ~HoldsConsumed(cp.plane)
    /\ Len(cp.plane.queues[t]) > 0
    /\ \E u \in Tasks \ {t} : Len(cp.plane.queues[u]) > 0

\* C19: with last_task None and two sub-engines holding outputs, pop_output
\* alternates between them: the call after one that returned an output of a
\* sub-engine returns an output of another one.
C19_RoundRobinInterleaves ==
    [][\A t \in Tasks : (TwoBuffered(t) /\ Popping)
          => (cp'.popped.some /\ cp'.popped.val.task # t)]_vars

\* C19 as the code has it: with last_task None, pop_output polls the
\* sub-engine at the switcher's current index and, when its next output goes to
\* the caller, returns it, takes it off that sub-engine's queue and leaves the
\* switcher on that sub-engine; so the outputs of one sub-engine are returned
\* in FIFO order before those of the next, not interleaved 1:1.
C19_RoundRobinStaysOnTask ==
    [][(Popping /\ ~cp.plane.last_task.some
        /\ Len(cp.plane.queues[cp.plane.switcher.current]) > 0
        /\ Forwarded(Head(cp.plane.queues[cp.plane.switcher.current])))
        => LET t == cp.plane.switcher.current
           IN  /\ cp'.popped = Some(PlaneOutput(t, Head(cp.plane.queues[t])))
               /\ cp'.plane.queues = [cp.plane.queues EXCEPT ![t] = Tail(@)]
               /\ cp'.plane.switcher.current = t]_vars

\* two outputs of one sub-engine came out of the round-robin branch one after
\* the other while another sub-engine was holding an output
C19_Witness ==
    \E t \in Tasks :
        /\ TwoBuffered(t)
        /\ cp.plane.switcher.current = t
        /\ cp.popped.val.kind = Head(cp.plane.queues[t])

(***************************************************************************)
(* The controller plane under its host (a loop around a timer and the      *)
(* input queues): the host calls pop_output until it returns None before   *)
(* it delivers the next input or tick, it keeps calling pop_output, and    *)
(* its timer keeps firing, so on_tick is called again and again.           *)
(* PopsForever is the fairness of pop_output: pop_output steps that change *)
(* the state recur.  Under the strong fairness of the tick this is weak    *)
(* fairness of CpPopOutput: a behaviour with finitely many such steps ends *)
(* in a state where pop_output returns None and changes nothing, where the *)
(* tick stays enabled.                                                     *)
(***************************************************************************)
Drained ==
    \/ cp.last.kind = "new"
    \/ cp.last.kind = "pop_output" /\ ~cp.popped.some

HostTick == Drained /\ CpTick

HostEvent == Drained /\ CpEvent

NextHost == HostTick \/ HostEvent \/ CpPopOutput

PopsForever == []<><<Popping>>_vars

SpecCPHost == InitCP /\ [][NextHost]_vars /\ PopsForever /\ SF_vars(HostTick)

Returned(t) == cp.last.kind = "pop_output" /\ cp.popped.some /\ cp.popped.val.task = t

C31_NoneMeansDrained ==
    (cp.last.kind = "pop_output" /\ ~cp.popped.some)
        => \A t \in Tasks : ~HoldsForwarded(cp.plane, t)

(***************************************************************************)
(* The controller plane with a neighbours manager that reports             *)
(* connections: it emits Connected, Disconnected and Stats events next to  *)
(* its control messages.                                                   *)
(***************************************************************************)
\* Connected and Disconnected events the neighbours manager emits in a run
MaxEmitted == 2

NeighbourOutputs == {"Control"} \cup ConnectionEvents

NeighbourBursts(n) == UNION {[1 .. k -> NeighbourOutputs] : k \in 0 .. n}

\* the Connected and Disconnected events of a sequence of neighbours outputs
PinEvents(q) == SelectSeq(q, LAMBDA e : e \in {"Connected", "Disconnected"})

HoldsShared(c) ==
    \E i \in 1 .. Len(c.queues[NEIGHBOURS_ID]) : c.queues[NEIGHBOURS_ID][i] \in ConnectionEvents

ConnReactsOf(c, task) ==
    IF HoldsConsumed(c) \/ HoldsShared(c) THEN BurstsOf(task, 1) ELSE {<< >>}

\* what the neighbours queue of after holds beyond that of before
Added(before, after) ==
    SubSeq(after.queues[NEIGHBOURS_ID], Len(before.queues[NEIGHBOURS_ID]) + 1,
           Len(after.queues[NEIGHBOURS_ID]))

\* what the neighbours queue of before has lost in after
Taken(before, after) ==
    SubSeq(before.queues[NEIGHBOURS_ID], 1,
           Len(before.queues[NEIGHBOURS_ID]) - Len(after.queues[NEIGHBOURS_ID]))

\* the connection event a returned output stands for
EventOf(popped) ==
    IF popped = Some(PlaneOutput(NEIGHBOURS_ID, "Pin")) THEN <<"Connected">>
    ELSE IF popped = Some(PlaneOutput(NEIGHBOURS_ID, "UnPin")) THEN <<"Disconnected">>
    ELSE << >>

\* last is the call just made and popped the result of pop_output; shared are
\* the shared inputs handed over during the last call, taken the neighbours
\* outputs it popped, emitted the Connected and Disconnected events the
\* neighbours manager has emitted so far and returned those the plane has
\* returned as Pin and UnPin
ConnState(c, kind, popped, shared) ==
    [plane    |-> c,
     last     |-> [kind |-> kind],
     popped   |-> popped,
     shared   |-> shared,
     taken    |-> IF kind = "pop_output" THEN Taken(cp.plane, c) ELSE << >>,
     emitted  |-> IF kind = "pop_output" THEN cp.emitted
                  ELSE cp.emitted \o PinEvents(Added(cp.plane, c)),
     returned |-> cp.returned \o EventOf(popped)]

InitCPConn ==
    /\ table = Table_new(NodeA, 0)
    /\ op = NoOp
    /\ net = NetIdle
    /\ links = {}
    /\ removals = 0
    /\ ticked = {}
    /\ rounds = 0
    /\ kv = PlaneIdle
    /\ xw = PlaneIdle
    /\ internal = PlaneIdle
    /\ fm = PlaneIdle
    /\ tcp = PlaneIdle
    /\ dp = PlaneIdle
    /\ cp = [plane  |-> ControllerPlane_new,
             last   |-> [kind |-> "new"],
             popped |-> None,
             shared |-> << >>,
             taken  |-> << >>,
             emitted |-> << >>,
             returned |-> << >>]

\* a tick at which the neighbours manager alone may have something to report
ConnTick ==
    /\ \E bn \in NeighbourBursts(1) :
          /\ Len(cp.emitted) + Len(PinEvents(bn)) <= MaxEmitted
          /\ cp' = ConnState(on_tick(cp.plane, Bursts3(bn, << >>, << >>)), "on_tick", None,
                             << >>)
    /\ UNCHANGED <<table, op, net, links, removals, ticked, rounds, dp, kv, xw, internal, fm, tcp>>

ConnEvent ==
    /\ \E task \in Tasks :
       \E burst \in (IF task = NEIGHBOURS_ID THEN NeighbourBursts(1)
                     ELSE BurstsOf(task, 1)) :
          /\ Held(cp.plane) + Len(burst) <= MaxHeld
          /\ task = NEIGHBOURS_ID => Len(cp.emitted) + Len(PinEvents(burst)) <= MaxEmitted
          /\ cp' = ConnState(on_event(cp.plane, task, burst), "on_event", None, << >>)
    /\ UNCHANGED <<table, op, net, links, removals, ticked, rounds, dp, kv, xw, internal, fm, tcp>>

ConnPopOutput ==
    /\ \E bf \in ConnReactsOf(cp.plane, FEATURES_ID), bs \in ConnReactsOf(cp.plane, SERVICES_ID) :
          LET r == pop_output_cp(cp.plane, Bursts3(<< >>, bf, bs))
          IN  cp' = ConnState(r.c, "pop_output", r.out, r.shared)
    /\ UNCHANGED <<table, op, net, links, removals, ticked, rounds, dp, kv, xw, internal, fm, tcp>>

NextCPConn == ConnTick \/ ConnEvent \/ ConnPopOutput

SpecCPConn == InitCPConn /\ [][NextCPConn]_vars

\* the events sub-engine to was handed as shared input during the last call
SharedTo(to) ==
    [i \in 1 .. Len(SelectSeq(cp.shared, LAMBDA x : x.to = to)) |->
        SelectSeq(cp.shared, LAMBDA x : x.to = to)[i].event]

\* C30: every connection event a call of pop_output pops from the neighbours
\* manager has been handed, once and in order, to the feature manager and to
\* the service manager as shared input when the call returns; the call returns
\* Pin exactly when it popped a Connected event and UnPin exactly when it
\* popped a Disconnected event; and the Pin and UnPin outputs returned so far,
\* followed by the events still held, are the Connected and Disconnected
\* events in the order the neighbours manager emitted them.
C30_ConnectionEvents ==
    /\ cp.last.kind = "pop_output" =>
          /\ SharedTo(FEATURES_ID) = SelectSeq(cp.taken, LAMBDA e : e \in ConnectionEvents)
          /\ SharedTo(SERVICES_ID) = SelectSeq(cp.taken, LAMBDA e : e \in ConnectionEvents)
          /\ PinEvents(cp.taken) = EventOf(cp.popped)
    /\ cp.emitted = cp.returned \o PinEvents(cp.plane.queues[NEIGHBOURS_ID])

\* a Connected and then a Disconnected event have been returned as Pin and
\* UnPin, the second by the call just made
C30_Witness ==
    /\ cp.last.kind = "pop_output"
    /\ cp.popped = Some(PlaneOutput(NEIGHBOURS_ID, "UnPin"))
    /\ cp.returned = <<"Connected", "Disconnected">>
    /\ Len(cp.shared) = 2

(***************************************************************************)
(* The DHT key-value client, features/dht_kv/client.rs: the MapGet         *)
(* requests of LocalStorage. LocalMap is not among the available sources,  *)
(* so the storage holds no map and the Control::MapCmd and                 *)
(* ServerEvent::MapEvent arms have nothing to act on.                      *)
(***************************************************************************)
MAP_GET_TIMEOUT_MS == 5000

\* milliseconds between two ticks
TickMs == 2500
\* ticks of a run
MaxTicks == 2
\* MapGet requests of a run
MaxGets == 2

Keys == {1, 2}
ServiceIds == {1, 2}
\* the keys each service asks for: both services ask for key 1
Requesters == {<<1, 1>>, <<2, 1>>, <<2, 2>>}

\* LocalStorageOutput
LocalOut(service, event) == [type |-> "Local", service |-> service, event |-> event]
RemoteOut(key, cmd) == [type |-> "Remote", rule |-> [type |-> "ToKey", key |-> key], cmd |-> cmd]

\* Event::MapGetRes(key, res)
MapGetRes(key, res) == [type |-> "MapGetRes", key |-> key, res |-> res]
\* ClientCommand::MapGet(key, req_id)
MapGetCmd(key, req_id) == [type |-> "MapGet", key |-> key, req_id |-> req_id]

\* LocalStorage::new; map_get_waits maps (key, req_id) to (service, second)
LocalStorage_new ==
    [map_get_waits |-> {},
     queue         |-> << >>,
     req_id_seed   |-> 0]

WaitOf(key, req_id, service, second) ==
    [key |-> key, req_id |-> req_id, service |-> service, second |-> second]

\* LocalStorage::on_tick: the waits whose second component is
\* MAP_GET_TIMEOUT_MS or more behind now are removed
LocalStorage_on_tick(st, now) ==
    [st EXCEPT !.map_get_waits = {w \in @ : ~(now >= w.second + MAP_GET_TIMEOUT_MS)}]

\* LocalStorage::on_local(now, service, Control::MapGet(key)): the wait is
\* inserted as (service, req_id)
LocalStorage_on_local(st, now, service, key) ==
    LET req_id == st.req_id_seed
    IN  [st EXCEPT !.req_id_seed = @ + 1,
                   !.map_get_waits = {w \in @ : ~(w.key = key /\ w.req_id = req_id)}
                                        \cup {WaitOf(key, req_id, service, req_id)},
                   !.queue = Append(@, RemoteOut(key, MapGetCmd(key, req_id)))]

\* on_server that answers the service and keeps the wait
LocalStorage_on_server_KeepWait(st, now, key, req_id, res) ==
    LET hit == {w \in st.map_get_waits : w.key = key /\ w.req_id = req_id}
    IN  IF hit = {} THEN st
        ELSE LET w == CHOOSE x \in hit : TRUE
             IN  [st EXCEPT !.queue = Append(@, LocalOut(w.service,
                                                         MapGetRes(key, [ok |-> TRUE, val |-> res])))]

\* LocalStorage::on_server(now, remote, ServerEvent::MapGetRes(key, req_id, res))
LocalStorage_on_server(st, now, key, req_id, res) ==
    LET hit == {w \in st.map_get_waits : w.key = key /\ w.req_id = req_id}
    IN  IF hit = {} THEN st
        ELSE LET w == CHOOSE x \in hit : TRUE
             IN  [st EXCEPT !.map_get_waits = @ \ hit,
                            !.queue = Append(@, LocalOut(w.service,
                                                         MapGetRes(key, [ok |-> TRUE, val |-> res])))]

\* LocalStorage::pop_action
LocalStorage_pop_action(st) ==
    IF Len(st.queue) = 0 THEN [st |-> st, out |-> None]
    ELSE [st |-> [st EXCEPT !.queue = Tail(@)], out |-> Some(Head(st.queue))]

NoArg == [key |-> 0, req_id |-> 0]

\* kv.storage is the LocalStorage and now the clock of its host; asked are the
\* MapGet requests made so far with the time of each, surfaced the MapGetRes
\* events queued for services so far, and last the call just made; arg is
\* the (key, req_id) of the MapGetRes of an on_server call, answered the
\* requests a MapGetRes has come for so far and dup whether the one just
\* handled repeats an earlier one
KvState(st, now, kind, asked, arg) ==
    [storage  |-> st,
     now      |-> now,
     last     |-> kind,
     asked    |-> asked,
     arg      |-> arg,
     answered |-> IF kind = "on_server"
                      /\ \E r \in asked : r.key = arg.key /\ r.req_id = arg.req_id
                  THEN kv.answered \cup {arg} ELSE kv.answered,
     dup      |-> kind = "on_server" /\ arg \in kv.answered,
     surfaced |-> kv.surfaced \cup
                  {[service |-> st.queue[i].service, key |-> st.queue[i].event.key,
                    ok |-> st.queue[i].event.res.ok] :
                      i \in {j \in (Len(kv.storage.queue) + 1) .. Len(st.queue) :
                                st.queue[j].type = "Local"}}]

InitKV ==
    /\ table = Table_new(NodeA, 0)
    /\ op = NoOp
    /\ net = NetIdle
    /\ links = {}
    /\ removals = 0
    /\ ticked = {}
    /\ rounds = 0
    /\ xw = PlaneIdle
    /\ internal = PlaneIdle
    /\ fm = PlaneIdle
    /\ tcp = PlaneIdle
    /\ dp = PlaneIdle
    /\ cp = PlaneIdle
    /\ kv = [storage |-> LocalStorage_new, now |-> 0, last |-> "new", asked |-> {},
             arg |-> NoArg, answered |-> {}, dup |-> FALSE, surfaced |-> {}]

KvTick ==
    /\ kv.now + TickMs <= MaxTicks * TickMs
    /\ kv' = KvState(LocalStorage_on_tick(kv.storage, kv.now + TickMs), kv.now + TickMs,
                     "on_tick", kv.asked, NoArg)
    /\ UNCHANGED <<table, op, net, links, removals, ticked, rounds, dp, cp, xw, internal, fm, tcp>>

KvLocal ==
    /\ kv.storage.req_id_seed < MaxGets
    /\ \E service \in ServiceIds, key \in Keys :
          /\ <<service, key>> \in Requesters
          /\ kv' = KvState(LocalStorage_on_local(kv.storage, kv.now, service, key), kv.now,
                        "on_local",
                        kv.asked \cup {[key |-> key, req_id |-> kv.storage.req_id_seed,
                                        service |-> service, at |-> kv.now]}, NoArg)
    /\ UNCHANGED <<table, op, net, links, removals, ticked, rounds, dp, cp, xw, internal, fm, tcp>>

KvServer ==
    /\ \E key \in Keys, req_id \in 0 .. kv.storage.req_id_seed :
          kv' = KvState(LocalStorage_on_server(kv.storage, kv.now, key, req_id, "value"),
                        kv.now, "on_server", kv.asked, [key |-> key, req_id |-> req_id])
    /\ UNCHANGED <<table, op, net, links, removals, ticked, rounds, dp, cp, xw, internal, fm, tcp>>

KvPop ==
    /\ Len(kv.storage.queue) > 0
    /\ kv' = KvState(LocalStorage_pop_action(kv.storage).st, kv.now, "pop_action", kv.asked,
                     NoArg)
    /\ UNCHANGED <<table, op, net, links, removals, ticked, rounds, dp, cp, xw, internal, fm, tcp>>

NextKV == KvTick \/ KvLocal \/ KvServer \/ KvPop

SpecKV == InitKV /\ [][NextKV]_vars

\* the request that a MapGetRes for arg answers
RequestOf(asked, arg) == {r \in asked : r.key = arg.key /\ r.req_id = arg.req_id}

\* C33: a first MapGetRes that comes less than MAP_GET_TIMEOUT_MS after its
\* MapGet request queues MapGetRes(key, Ok(res)) for the requesting service.
C33_TimelyResponseDelivered ==
    [][(kv'.last = "on_server" /\ ~kv'.dup)
       => \A r \in RequestOf(kv.asked, kv'.arg) :
              kv'.now < r.at + MAP_GET_TIMEOUT_MS
                  => kv'.storage.queue =
                        Append(kv.storage.queue,
                               LocalOut(r.service, MapGetRes(r.key, Ok("value"))))]_vars

\* C34: a MapGet request gets a req_id no earlier request had; a MapGetRes
\* that repeats an earlier one, or that answers no request made, queues
\* nothing and changes nothing, and a first one queues at most one event,
\* for the requesting service.
C34_OneResponsePerRequest ==
    [][/\ kv'.last = "on_local"
            => \A r \in kv'.asked \ kv.asked : \A e \in kv.asked : e.req_id # r.req_id
       /\ (kv'.last = "on_server" /\ (kv'.dup \/ RequestOf(kv.asked, kv'.arg) = {}))
            => kv'.storage = kv.storage
       /\ kv'.last = "on_server"
            => \/ kv'.storage = kv.storage
               \/ \E r \in RequestOf(kv.asked, kv'.arg) :
                      /\ kv'.storage.queue =
                            Append(kv.storage.queue,
                                   LocalOut(r.service, MapGetRes(r.key, Ok("value"))))
                      /\ kv'.storage.req_id_seed = kv.storage.req_id_seed]_vars

\* a MapGetRes comes a second time after the first was handed to the service
\* while another request is still waiting
C34_Witness ==
    /\ kv.last = "on_server"
    /\ kv.dup
    /\ \E r \in RequestOf(kv.asked, kv.arg) :
            \E e \in kv.surfaced : e.service = r.service /\ e.key = r.key /\ e.ok
    /\ kv.storage.map_get_waits # {}

\* C21: once a tick has run MAP_GET_TIMEOUT_MS or more after a MapGet request,
\* a MapGetRes has been queued for the service that made the request: the
\* response of the server, or Err(Timeout) when none came.
C21_TimeoutSurfaced ==
    \A r \in kv.asked :
        (kv.last = "on_tick" /\ kv.now >= r.at + MAP_GET_TIMEOUT_MS)
            => \E e \in kv.surfaced : e.service = r.service /\ e.key = r.key

(***************************************************************************)
(* Events for actors on the data planes of several workers: the Event arms *)
(* of pop_features and pop_services and the Input::Worker arms of          *)
(* on_event. The feature and service workers are not among the available   *)
(* sources: each is the source of the events it emits. The host that       *)
(* carries an Output::Worker(w, ..) to the input of worker w follows its   *)
(* written description.                                                    *)
(***************************************************************************)
\* data-plane workers of the node
MaxWorkers == 2
\* events the feature and service workers emit in a run
MaxMade == 2

WorkerIds == 0 .. (MaxWorkers - 1)
Userdatas == {7}

\* FeatureControlActor / ServiceControlActor
ActorController(userdata) == [type |-> "Controller", userdata |-> userdata]
ActorWorker(worker, userdata) == [type |-> "Worker", worker |-> worker, userdata |-> userdata]
ActorService(service) == [type |-> "Service", service |-> service]

\* ExtOut
FeaturesEvent(userdata, event) ==
    [type |-> "FeaturesEvent", userdata |-> userdata, event |-> event]
ServicesEvent(service, userdata, event) ==
    [type |-> "ServicesEvent", service |-> service, userdata |-> userdata, event |-> event]

\* CrossWorker
CrossFeature(userdata, event) ==
    [type |-> "Feature", userdata |-> userdata, event |-> event]
CrossService(service, userdata, event) ==
    [type |-> "Service", service |-> service, userdata |-> userdata, event |-> event]

\* Output
OutputExt(ext) == [type |-> "Ext", ext |-> ext]
OutputWorker(worker, cross) == [type |-> "Worker", worker |-> worker, cross |-> cross]
OutputControl(control) == [type |-> "Control", control |-> control]

\* the FeatureWorkerOutput::Event arm of pop_features that takes every worker
\* actor for its own
pop_features_Event_AlwaysOwn(worker_id, actor, event) ==
    IF actor.type = "Controller"
    THEN Some(OutputControl([type |-> "ExtFeaturesEvent", userdata |-> actor.userdata,
                             event |-> event]))
    ELSE IF actor.type = "Worker"
    THEN Some(OutputExt(FeaturesEvent(actor.userdata, event)))
    ELSE None

\* the FeatureWorkerOutput::Event arm of pop_features: what is pushed to the
\* queue of worker worker_id; an event for a service goes to the service
\* worker and pushes nothing
pop_features_Event(worker_id, actor, event) ==
    IF actor.type = "Controller"
    THEN Some(OutputControl([type |-> "ExtFeaturesEvent", userdata |-> actor.userdata,
                             event |-> event]))
    ELSE IF actor.type = "Worker"
    THEN IF worker_id = actor.worker
         THEN Some(OutputExt(FeaturesEvent(actor.userdata, event)))
         ELSE Some(OutputWorker(actor.worker, CrossFeature(actor.userdata, event)))
    ELSE None

\* the ServiceWorkerOutput::Event arm of pop_services
pop_services_Event(worker_id, service, actor, event) ==
    IF actor.type = "Controller"
    THEN OutputControl([type |-> "ExtServicesEvent", service |-> service,
                        userdata |-> actor.userdata, event |-> event])
    ELSE IF worker_id = actor.worker
    THEN OutputExt(ServicesEvent(service, actor.userdata, event))
    ELSE OutputWorker(actor.worker, CrossService(service, actor.userdata, event))

\* on_event(Input::Worker(cross)): what is pushed to the queue
on_event_Worker(cross) ==
    IF cross.type = "Feature"
    THEN OutputExt(FeaturesEvent(cross.userdata, cross.event))
    ELSE OutputExt(ServicesEvent(cross.service, cross.userdata, cross.event))

\* xw.queues[w] is the output queue of the data plane of worker w, bus the
\* cross-worker messages the host is carrying, ext[w] the Ext outputs worker w
\* has returned, control the outputs returned for the controller and made[id]
\* the origin of event id: the worker that produced it, its actor and whether
\* a feature or a service emitted it
XwInit ==
    [queues  |-> [w \in WorkerIds |-> << >>],
     bus     |-> {},
     ext     |-> [w \in WorkerIds |-> << >>],
     control |-> {},
     made    |-> << >>]

InitXW ==
    /\ table = Table_new(NodeA, 0)
    /\ op = NoOp
    /\ net = NetIdle
    /\ links = {}
    /\ removals = 0
    /\ ticked = {}
    /\ rounds = 0
    /\ internal = PlaneIdle
    /\ fm = PlaneIdle
    /\ tcp = PlaneIdle
    /\ dp = PlaneIdle
    /\ cp = PlaneIdle
    /\ kv = PlaneIdle
    /\ xw = XwInit

FeatureActors ==
    {ActorController(u) : u \in Userdatas} \cup {ActorWorker(w, u) : w \in WorkerIds, u \in Userdatas}
        \cup {ActorService(1)}

ServiceActors ==
    {ActorController(u) : u \in Userdatas} \cup {ActorWorker(w, u) : w \in WorkerIds, u \in Userdatas}

\* pop_features of worker p whose feature worker gives Event(actor, event)
XwPopFeatures ==
    /\ Len(xw.made) < MaxMade
    /\ \E p \in WorkerIds, actor \in FeatureActors :
          LET event == Len(xw.made) + 1
              out   == pop_features_Event(p, actor, event)
          IN  xw' = [xw EXCEPT !.queues[p] = IF out.some THEN Append(@, out.val) ELSE @,
                               !.made = Append(@, [by |-> p, actor |-> actor, of |-> "feature"])]
    /\ UNCHANGED <<table, op, net, links, removals, ticked, rounds, dp, cp, kv, internal, fm, tcp>>

\* pop_services of worker p whose service worker gives Event(actor, event)
XwPopServices ==
    /\ Len(xw.made) < MaxMade
    /\ \E p \in WorkerIds, actor \in ServiceActors :
          LET event == Len(xw.made) + 1
          IN  xw' = [xw EXCEPT !.queues[p] = Append(@, pop_services_Event(p, 1, actor, event)),
                               !.made = Append(@, [by |-> p, actor |-> actor, of |-> "service"])]
    /\ UNCHANGED <<table, op, net, links, removals, ticked, rounds, dp, cp, kv, internal, fm, tcp>>

\* pop_output of worker p returns the head of its queue; the host takes
\* an Ext output as an output of that worker, hands a Control output to the
\* controller and carries a Worker output to the worker it names
XwPopOutput ==
    /\ \E p \in WorkerIds :
          /\ Len(xw.queues[p]) > 0
          /\ LET out == Head(xw.queues[p])
             IN  xw' = [xw EXCEPT !.queues[p] = Tail(@),
                                  !.ext[p] = IF out.type = "Ext" THEN Append(@, out.ext) ELSE @,
                                  !.control = IF out.type = "Control" THEN @ \cup {out.control}
                                              ELSE @,
                                  !.bus = IF out.type = "Worker"
                                          THEN @ \cup {[worker |-> out.worker, cross |-> out.cross]}
                                          ELSE @]
    /\ UNCHANGED <<table, op, net, links, removals, ticked, rounds, dp, cp, kv, internal, fm, tcp>>

\* the host gives a carried message to its worker: on_event(Input::Worker(..))
XwOnEventWorker ==
    /\ \E m \in xw.bus :
          xw' = [xw EXCEPT !.bus = @ \ {m},
                           !.queues[m.worker] = Append(@, on_event_Worker(m.cross))]
    /\ UNCHANGED <<table, op, net, links, removals, ticked, rounds, dp, cp, kv, internal, fm, tcp>>

NextXW == XwPopFeatures \/ XwPopServices \/ XwPopOutput \/ XwOnEventWorker

SpecXW == InitXW /\ [][NextXW]_vars

\* the ExtOut event that stands for event id as its actor expects it
ExtOf(id) ==
    IF xw.made[id].of = "feature" THEN FeaturesEvent(xw.made[id].actor.userdata, id)
    ELSE ServicesEvent(1, xw.made[id].actor.userdata, id)

CrossOf(id) ==
    IF xw.made[id].of = "feature" THEN CrossFeature(xw.made[id].actor.userdata, id)
    ELSE CrossService(1, xw.made[id].actor.userdata, id)

\* the places that hold event id on behalf of worker w
QueuedAt(id, w) == {i \in 1 .. Len(xw.queues[w]) : xw.queues[w][i] = OutputExt(ExtOf(id))}
ReturnedAt(id, w) == {i \in 1 .. Len(xw.ext[w]) : xw.ext[w][i] = ExtOf(id)}
Carried(id, w) ==
    {m \in xw.bus : m = [worker |-> w, cross |-> CrossOf(id)]} \cup
    {<<p, i>> \in WorkerIds \X (1 .. MaxMade) :
        i <= Len(xw.queues[p]) /\ xw.queues[p][i] = OutputWorker(w, CrossOf(id))}

\* event id appears somewhere as an output of the data plane of worker w
Mentions(out, id) ==
    \/ out.type = "Ext" /\ out.ext.event = id
    \/ out.type = "Worker" /\ out.cross.event = id
    \/ out.type = "Control" /\ out.control.event = id

\* C22: an event for actor Worker(w, userdata) is, at every moment, in one
\* place only: queued as Ext on its producer when the producer is w and as
\* Output::Worker(w, CrossWorker) otherwise, carried to w, queued as Ext on w,
\* or returned as ExtOut by w; no other worker queues or returns it as Ext and
\* the controller is never given it.
C22_WorkerEventOnItsWorker ==
    \A id \in 1 .. Len(xw.made) :
        xw.made[id].actor.type = "Worker" =>
            LET w == xw.made[id].actor.worker
            IN  /\ Cardinality(QueuedAt(id, w)) + Cardinality(ReturnedAt(id, w))
                     + Cardinality(Carried(id, w)) = 1
                /\ \A p \in WorkerIds \ {w} :
                      /\ \A i \in 1 .. Len(xw.ext[p]) : xw.ext[p][i].event # id
                      /\ \A i \in 1 .. Len(xw.queues[p]) :
                            Mentions(xw.queues[p][i], id)
                               => ( /\ p = xw.made[id].by
                                    /\ xw.queues[p][i] = OutputWorker(w, CrossOf(id)) )
                /\ xw.made[id].by = w => Carried(id, w) = {}
                /\ \A c \in xw.control : c.event # id
                /\ \A m \in xw.bus : m.cross.event = id => m.worker = w

\* worker 1 has returned, as ExtOut, an event that a feature of worker 0 emitted
\* for an actor of worker 1
C22_Witness ==
    /\ Len(xw.made) > 0
    /\ xw.made[1] = [by |-> 0, actor |-> ActorWorker(1, 7), of |-> "feature"]
    /\ xw.ext[1] = <<FeaturesEvent(7, 1)>>
    /\ xw.bus = {}

(***************************************************************************)
(* PlaneInternal, plane/internal.rs: the behaviours and the action queue.  *)
(* The behaviours are not among the available sources: each is the list of *)
(* the actions it has ready for pop_action, and it answers a callback with *)
(* a burst of new actions.                                                 *)
(***************************************************************************)
\* actions a behaviour makes ready in one callback
MaxActions == 1
\* actions the action queue holds when a handler is called
MaxWaiting == 1

\* service ids of the behaviours of the plane, and the ids in use
Behaviours == {1, 2}
Services == 1 .. 3

\* NetworkBehaviorAction
CloseNode(node) == [type |-> "CloseNode", node |-> node]
ToSdkService(service, msg) == [type |-> "ToSdkService", service |-> service, msg |-> msg]

NetworkBehaviorActions == {CloseNode(1)} \cup {ToSdkService(t, "msg") : t \in Services}

\* PlaneInternalAction::BehaviorAction
BehaviorAction(service_id, action) ==
    [type |-> "BehaviorAction", service |-> service_id, action |-> action]

\* PlaneInternal::new with the behaviours of Behaviours; pending[s] are the
\* actions behaviour s has ready, sdk_msgs the calls of on_sdk_msg made by the
\* last handler, in order
PlaneInternal_new ==
    [action_queue |-> << >>,
     pending      |-> [s \in Behaviours |-> << >>],
     sdk_msgs     |-> << >>,
     panicked     |-> FALSE]

\* the first loop of pop_behaviours_action from behaviour s on: the actions of
\* every behaviour are popped
RECURSIVE DrainFrom(_, _, _)
DrainFrom(p, s, sdk) ==
    IF s > 3 THEN [p |-> p, sdk |-> sdk]
    ELSE IF s \notin Behaviours THEN DrainFrom(p, s + 1, sdk)
    ELSE LET acts == p.pending[s]
             keep == SelectSeq(acts, LAMBDA a : a.type # "ToSdkService")
             sdks == SelectSeq(acts, LAMBDA a : a.type = "ToSdkService")
         IN  DrainFrom([p EXCEPT !.pending[s] = << >>,
                                 !.action_queue = @ \o [i \in 1 .. Len(keep) |->
                                                          BehaviorAction(s, keep[i])]],
                       s + 1,
                       sdk \o [i \in 1 .. Len(sdks) |->
                                 [from |-> s, to |-> sdks[i].service, msg |-> sdks[i].msg]])

\* the second loop of pop_behaviours_action; a message for a service that has
\* no behaviour fails the debug assertion in a debug build and is dropped in a
\* release build; react[s] are the actions behaviour s makes ready in on_sdk_msg
RECURSIVE DeliverSdk(_, _, _, _)
DeliverSdk(p, sdk, react, debug) ==
    IF Len(sdk) = 0 THEN p
    ELSE LET m == Head(sdk)
         IN  IF m.to \in Behaviours
             THEN DeliverSdk([p EXCEPT !.sdk_msgs = Append(@, m),
                                       !.pending[m.to] = @ \o react[m.to]],
                             Tail(sdk), react, debug)
             ELSE IF debug THEN [p EXCEPT !.panicked = TRUE]
             ELSE DeliverSdk(p, Tail(sdk), react, debug)

\* pop_behaviours_action that queues the messages for the SDK like any action
pop_behaviours_action_QueueSdk(p, react, debug) ==
    LET d == DrainFrom([p EXCEPT !.sdk_msgs = << >>], 1, << >>)
    IN  [d.p EXCEPT !.action_queue = @ \o [i \in 1 .. Len(d.sdk) |->
                        BehaviorAction(d.sdk[i].from, ToSdkService(d.sdk[i].to, d.sdk[i].msg))]]

pop_behaviours_action(p, react, debug) ==
    LET d == DrainFrom([p EXCEPT !.sdk_msgs = << >>], 1, << >>)
    IN  DeliverSdk(d.p, d.sdk, react, debug)

\* on_tick: every behaviour is ticked, burst[s] are the actions behaviour s
\* makes ready, then pop_behaviours_action
PlaneInternal_on_tick(p, burst, react, debug) ==
    pop_behaviours_action([p EXCEPT !.pending = [s \in Behaviours |-> @[s] \o burst[s]]],
                          react, debug)

\* on_internal_event(AwakeBehaviour { service_id }): the behaviour is awoken,
\* then pop_behaviours_action
PlaneInternal_on_awake(p, service_id, burst, react, debug) ==
    pop_behaviours_action([p EXCEPT !.pending[service_id] = @ \o burst], react, debug)

\* pop_action
PlaneInternal_pop_action(p) ==
    IF Len(p.action_queue) = 0 THEN [p |-> p, out |-> None]
    ELSE [p |-> [p EXCEPT !.action_queue = Tail(@)], out |-> Some(Head(p.action_queue))]

ActionBursts(n) == UNION {[1 .. k -> NetworkBehaviorActions] : k \in 0 .. n}

\* what a behaviour makes ready in on_sdk_msg, when a behaviour with the
\* actions ready is about to be handed a message
SdkReacts(ready) ==
    IF \E s \in Behaviours : \E i \in 1 .. Len(ready[s]) :
          ready[s][i].type = "ToSdkService" /\ ready[s][i].service \in Behaviours
    THEN {<< >>, <<CloseNode(2)>>}
    ELSE {<< >>}

\* the builds that differ on the actions ready: with and without debug
\* assertions when a message names a service that has no behaviour
Builds(ready) ==
    IF \E s \in Behaviours : \E i \in 1 .. Len(ready[s]) :
          ready[s][i].type = "ToSdkService" /\ ready[s][i].service \notin Behaviours
    THEN BOOLEAN
    ELSE {FALSE}

\* ---- connection requests ----
\* the result of check_incoming_connection / check_outgoing_connection
CheckOk == [ok |-> TRUE]
Refused(err) == [ok |-> FALSE, err |-> err]
CheckResults == {CheckOk, Refused("not allowed"), Refused("too many")}

\* calls on the ConnectionAcceptor
AcceptCall == [call |-> "accept"]
RejectCall(err) == [call |-> "reject", err |-> err]

\* the loop over the behaviours from behaviour s on, without the break
RECURSIVE CheckFrom_NoBreak(_, _, _)
CheckFrom_NoBreak(checks, s, res) ==
    IF s > 3 THEN res
    ELSE IF s \notin Behaviours THEN CheckFrom_NoBreak(checks, s + 1, res)
    ELSE IF ~checks[s].ok
    THEN CheckFrom_NoBreak(checks, s + 1,
                           [acceptor  |-> Append(res.acceptor, RejectCall(checks[s].err)),
                            consulted |-> Append(res.consulted, s),
                            rejected  |-> TRUE])
    ELSE CheckFrom_NoBreak(checks, s + 1, [res EXCEPT !.consulted = Append(@, s)])

\* the loop over the behaviours from behaviour s on: consulted are the
\* behaviours whose check was called, acceptor the calls on the acceptor
RECURSIVE CheckFrom(_, _, _)
CheckFrom(checks, s, res) ==
    IF s > 3 THEN res
    ELSE IF s \notin Behaviours THEN CheckFrom(checks, s + 1, res)
    ELSE IF ~checks[s].ok
    THEN [acceptor  |-> Append(res.acceptor, RejectCall(checks[s].err)),
          consulted |-> Append(res.consulted, s),
          rejected  |-> TRUE]
    ELSE CheckFrom(checks, s + 1, [res EXCEPT !.consulted = Append(@, s)])

\* on_transport_event for a request on which every behaviour is asked
on_transport_request_NoBreak(checks) ==
    LET r == CheckFrom_NoBreak(checks, 1, [acceptor |-> << >>, consulted |-> << >>,
                                           rejected |-> FALSE])
    IN  IF ~r.rejected THEN [r EXCEPT !.acceptor = Append(@, AcceptCall)] ELSE r

\* on_transport_event(IncomingRequest | OutgoingRequest): checks[s] is the
\* answer of behaviour s
on_transport_request(checks) ==
    LET r == CheckFrom(checks, 1, [acceptor |-> << >>, consulted |-> << >>,
                                   rejected |-> FALSE])
    IN  IF ~r.rejected THEN [r EXCEPT !.acceptor = Append(@, AcceptCall)] ELSE r

NoRequest == [type |-> "none"]

\* internal.plane is the PlaneInternal; last the call just made, ready the
\* actions the behaviours had ready when its pop_behaviours_action began and
\* waiting the action queue at that moment
PiState(p, kind, ready, waiting) ==
    [plane |-> p, last |-> kind, ready |-> ready, waiting |-> waiting, request |-> NoRequest]

InitPI ==
    /\ table = Table_new(NodeA, 0)
    /\ op = NoOp
    /\ net = NetIdle
    /\ links = {}
    /\ removals = 0
    /\ ticked = {}
    /\ rounds = 0
    /\ fm = PlaneIdle
    /\ tcp = PlaneIdle
    /\ dp = PlaneIdle
    /\ cp = PlaneIdle
    /\ kv = PlaneIdle
    /\ xw = PlaneIdle
    /\ internal = PiState(PlaneInternal_new, "new", [s \in Behaviours |-> << >>], << >>)

\* a tick at which the second behaviour makes at most one action ready
PiTick ==
    /\ ~internal.plane.panicked
    /\ Len(internal.plane.action_queue) <= MaxWaiting
    /\ \E b1 \in ActionBursts(MaxActions), b2 \in {<< >>, <<CloseNode(2)>>} :
          LET burst == [s \in Behaviours |-> IF s = 1 THEN b1 ELSE b2]
              ready == [s \in Behaviours |-> internal.plane.pending[s] \o burst[s]]
          IN  \E r \in SdkReacts(ready), debug \in Builds(ready) :
                 internal' = PiState(PlaneInternal_on_tick(internal.plane, burst,
                                                           [s \in Behaviours |-> r], debug),
                                     "on_tick", ready, internal.plane.action_queue)
    /\ UNCHANGED <<table, op, net, links, removals, ticked, rounds, dp, cp, kv, xw, fm, tcp>>

PiAwake ==
    /\ ~internal.plane.panicked
    /\ Len(internal.plane.action_queue) <= MaxWaiting
    /\ \E service_id \in Behaviours, b \in ActionBursts(1) :
          LET ready == [internal.plane.pending EXCEPT ![service_id] = @ \o b]
          IN  \E r \in SdkReacts(ready), debug \in Builds(ready) :
                 internal' = PiState(PlaneInternal_on_awake(internal.plane, service_id, b,
                                                            [s \in Behaviours |-> r], debug),
                                     "on_internal_event", ready, internal.plane.action_queue)
    /\ UNCHANGED <<table, op, net, links, removals, ticked, rounds, dp, cp, kv, xw, fm, tcp>>

PiPopAction ==
    /\ ~internal.plane.panicked
    /\ Len(internal.plane.action_queue) > 0
    /\ internal' = PiState(PlaneInternal_pop_action(internal.plane).p, "pop_action",
                           internal.ready, internal.waiting)
    /\ UNCHANGED <<table, op, net, links, removals, ticked, rounds, dp, cp, kv, xw, fm, tcp>>

\* a connection request of the transport: request holds the answers of the
\* behaviours, the behaviours asked and the calls on the acceptor
PiRequest ==
    /\ ~internal.plane.panicked
    /\ Len(internal.plane.action_queue) <= MaxWaiting
    /\ \E type \in {"IncomingRequest", "OutgoingRequest"}, checks \in [Behaviours -> CheckResults] :
          LET ready == internal.plane.pending
              res   == on_transport_request(checks)
          IN  \E r \in SdkReacts(ready), debug \in Builds(ready) :
                 internal' =
                    [PiState(pop_behaviours_action(internal.plane, [s \in Behaviours |-> r], debug),
                             "on_transport_event", ready, internal.plane.action_queue)
                     EXCEPT !.request = [type |-> type, checks |-> checks,
                                         acceptor |-> res.acceptor,
                                         consulted |-> res.consulted]]
    /\ UNCHANGED <<table, op, net, links, removals, ticked, rounds, dp, cp, kv, xw, fm, tcp>>

NextPI == PiTick \/ PiAwake \/ PiPopAction \/ PiRequest

SpecPI == InitPI /\ [][NextPI]_vars

\* a handler has just run pop_behaviours_action to its end
Handled ==
    /\ internal.last \in {"on_tick", "on_internal_event", "on_transport_event"}
    /\ ~internal.plane.panicked

\* the actions of behaviour s that are no message for the SDK, as the action
\* queue is to hold them
MovedOf(s) ==
    [i \in 1 .. Len(SelectSeq(internal.ready[s], LAMBDA a : a.type # "ToSdkService")) |->
        BehaviorAction(s, SelectSeq(internal.ready[s], LAMBDA a : a.type # "ToSdkService")[i])]

\* the messages for the SDK of behaviour s whose target is a behaviour
SdkOf(s) ==
    [i \in 1 .. Len(SelectSeq(internal.ready[s],
                              LAMBDA a : a.type = "ToSdkService" /\ a.service \in Behaviours)) |->
        [from |-> s,
         to   |-> SelectSeq(internal.ready[s],
                            LAMBDA a : a.type = "ToSdkService" /\ a.service \in Behaviours)[i].service,
         msg  |-> SelectSeq(internal.ready[s],
                            LAMBDA a : a.type = "ToSdkService" /\ a.service \in Behaviours)[i].msg]]

\* C26 as stated: after pop_behaviours_action the action queue has gained the
\* actions of the behaviours that are no message for the SDK, tagged with the
\* service id, behaviour after behaviour and each in its order; no message for
\* the SDK is in the action queue; every message for a behaviour has been
\* handed once to on_sdk_msg of its target, and none to the behaviour that
\* sent it.
C26_SdkNeverToSender ==
    Handled =>
        /\ internal.plane.action_queue = internal.waiting \o MovedOf(1) \o MovedOf(2)
        /\ \A i \in 1 .. Len(internal.plane.action_queue) :
              internal.plane.action_queue[i].action.type # "ToSdkService"
        /\ internal.plane.sdk_msgs = SdkOf(1) \o SdkOf(2)
        /\ \A i \in 1 .. Len(internal.plane.sdk_msgs) :
              internal.plane.sdk_msgs[i].to # internal.plane.sdk_msgs[i].from

\* C26, amended: as above, but a message is handed to its target and to no
\* other behaviour: the sender is handed it exactly when it names itself, and
\* the behaviours the handler has emptied hold nothing but what they made
\* ready in on_sdk_msg.
C26_SdkToTargetOnly ==
    Handled =>
        /\ internal.plane.action_queue = internal.waiting \o MovedOf(1) \o MovedOf(2)
        /\ \A i \in 1 .. Len(internal.plane.action_queue) :
              internal.plane.action_queue[i].action.type # "ToSdkService"
        /\ internal.plane.sdk_msgs = SdkOf(1) \o SdkOf(2)
        /\ \A s \in Behaviours :
              (\A i \in 1 .. Len(internal.plane.sdk_msgs) : internal.plane.sdk_msgs[i].to # s)
                 => internal.plane.pending[s] = << >>

\* the behaviours that refuse the request
Refusing == {s \in Behaviours : ~internal.request.checks[s].ok}

First(S) == CHOOSE s \in S : \A t \in S : s <= t

\* C38: a connection request resolves its acceptor with exactly one call:
\* accept when no behaviour refuses, otherwise reject with the error of the
\* first behaviour that refuses, the behaviours up to that one and no
\* other being asked, in the order of their service ids.
C38_AcceptorResolvedOnce ==
    internal.last = "on_transport_event" =>
        /\ Len(internal.request.acceptor) = 1
        /\ Refusing = {}
              => /\ internal.request.acceptor = <<AcceptCall>>
                 /\ internal.request.consulted = <<1, 2>>
        /\ Refusing # {}
              => /\ internal.request.acceptor =
                        <<RejectCall(internal.request.checks[First(Refusing)].err)>>
                 /\ \A i \in 1 .. Len(internal.request.consulted) :
                        internal.request.consulted[i] = i
                 /\ Len(internal.request.consulted) = First(Refusing)

\* both behaviours refuse an incoming request, each with its own error
C38_Witness ==
    /\ internal.last = "on_transport_event"
    /\ internal.request.type = "IncomingRequest"
    /\ internal.request.checks[1] = Refused("too many")
    /\ internal.request.checks[2] = Refused("not allowed")
    /\ internal.request.acceptor = <<RejectCall("too many")>>
    /\ internal.request.consulted = <<1>>

\* C37: when a handler of the plane returns, no behaviour holds an action:
\* all were moved to the action queue or delivered.
C37_NoActionLeft ==
    Handled => \A s \in Behaviours : internal.plane.pending[s] = << >>

\* behaviour 1 had the action it made ready in an earlier on_sdk_msg and a
\* message for behaviour 2, and behaviour 2 an action for the plane, while the
\* action queue held an action
C26_Witness ==
    /\ Handled
    /\ internal.ready[1] = <<CloseNode(2), ToSdkService(2, "msg")>>
    /\ internal.ready[2] = <<CloseNode(2)>>
    /\ Len(internal.waiting) = 1
    /\ Len(internal.plane.sdk_msgs) = 1

(***************************************************************************)
(* FeatureWorkerManager, data_plane/features.rs: the five feature workers  *)
(* behind one pop_output. The workers are not among the available sources: *)
(* each is the queue of the outputs it holds, and the ids are those of the *)
(* feature list, neighbours 0 to dht_kv 4.                                  *)
(***************************************************************************)
\* TasksSwitcher<4>
FEATURE_TASKS == 4
\* outputs the workers hold at a time
MaxFeatureHeld == 2

\* the workers on_tick reaches
TickedFeatures == 0 .. 3

FwSwitcher_current(sw) ==
    IF sw.idle >= FEATURE_TASKS
    THEN [sw |-> [sw EXCEPT !.idle = 0], cur |-> None]
    ELSE [sw |-> sw, cur |-> Some(sw.current)]

FwSwitcher_process(sw, res) ==
    IF res.some THEN [sw EXCEPT !.idle = 0]
    ELSE [current |-> (sw.current + 1) % FEATURE_TASKS, idle |-> sw.idle + 1]

FeatureWorkerManager_new ==
    [queues             |-> [f \in FeatureIds |-> << >>],
     last_input_feature |-> None,
     switcher           |-> Switcher_default]

FwHeld(m) == Len(m.queues[0]) + Len(m.queues[1]) + Len(m.queues[2]) + Len(m.queues[3])
                + Len(m.queues[4])

\* a worker that is given a tick or an input queues the outputs of burst
FwFeed(m, feature, burst) ==
    IF FwHeld(m) + Len(burst) <= MaxFeatureHeld
    THEN [m EXCEPT !.queues[feature] = @ \o burst]
    ELSE m

\* FeatureWorkerManager::on_tick: neighbours, data, router_sync and vpn
FeatureWorkerManager_on_tick(m, bursts) ==
    FwFeed(FwFeed(FwFeed(FwFeed([m EXCEPT !.last_input_feature = None],
                                0, bursts[0]), 1, bursts[1]), 2, bursts[2]), 3, bursts[3])

\* FeatureWorkerManager::on_input for an input of the worker of feature
FeatureWorkerManager_on_input(m, feature, burst) == FwFeed(m, feature, burst)

\* pop_output of the worker of feature
FwPop(m, feature) ==
    IF Len(m.queues[feature]) = 0 THEN [m |-> m, out |-> None]
    ELSE [m |-> [m EXCEPT !.queues[feature] = Tail(@)],
          out |-> Some([feature |-> feature, out |-> Head(m.queues[feature])])]

RECURSIVE FwRoundRobin(_)
\* the loop of FeatureWorkerManager::pop_output
FwRoundRobin(m) ==
    LET cur == FwSwitcher_current(m.switcher)
        m0  == [m EXCEPT !.switcher = cur.sw]
    IN  IF ~cur.cur.some THEN [m |-> m0, out |-> None]
        ELSE IF cur.cur.val \notin FeatureIds THEN [m |-> m0, out |-> None]
        ELSE LET r  == FwPop(m0, cur.cur.val)
                 m1 == [r.m EXCEPT !.switcher = FwSwitcher_process(m0.switcher, r.out)]
             IN  IF r.out.some THEN [m |-> m1, out |-> r.out] ELSE FwRoundRobin(m1)

\* FeatureWorkerManager::pop_output
FeatureWorkerManager_pop_output(m) ==
    IF m.last_input_feature.some
    THEN IF m.last_input_feature.val \in FeatureIds
         THEN FwPop(m, m.last_input_feature.val)
         ELSE [m |-> m, out |-> None]
    ELSE FwRoundRobin(m)

\* fm.manager is the FeatureWorkerManager, last the call just made and popped
\* the result of pop_output
FmState(m, kind, popped) == [manager |-> m, last |-> kind, popped |-> popped]

WorkerBursts == {<< >>, <<"out">>}

InitFM ==
    /\ table = Table_new(NodeA, 0)
    /\ op = NoOp
    /\ net = NetIdle
    /\ links = {}
    /\ removals = 0
    /\ ticked = {}
    /\ rounds = 0
    /\ tcp = PlaneIdle
    /\ dp = PlaneIdle
    /\ cp = PlaneIdle
    /\ kv = PlaneIdle
    /\ xw = PlaneIdle
    /\ internal = PlaneIdle
    /\ fm = FmState(FeatureWorkerManager_new, "new", None)

FmTick ==
    /\ \E bursts \in [TickedFeatures -> WorkerBursts] :
          fm' = FmState(FeatureWorkerManager_on_tick(fm.manager, bursts), "on_tick", None)
    /\ UNCHANGED <<table, op, net, links, removals, ticked, rounds, dp, cp, kv, xw, internal, tcp>>

FmInput ==
    /\ \E feature \in FeatureIds, burst \in WorkerBursts :
          fm' = FmState(FeatureWorkerManager_on_input(fm.manager, feature, burst),
                        "on_input", None)
    /\ UNCHANGED <<table, op, net, links, removals, ticked, rounds, dp, cp, kv, xw, internal, tcp>>

FmPopOutput ==
    /\ LET r == FeatureWorkerManager_pop_output(fm.manager)
       IN  fm' = FmState(r.m, "pop_output", r.out)
    /\ UNCHANGED <<table, op, net, links, removals, ticked, rounds, dp, cp, kv, xw, internal, tcp>>

NextFM == FmTick \/ FmInput \/ FmPopOutput

SpecFM == InitFM /\ [][NextFM]_vars

\* C35: a pop_output that returns None leaves no feature worker with a
\* pending output, so pop_output calls return the output of every worker that
\* holds one.
C35_EveryWorkerPolled ==
    (fm.last = "pop_output" /\ ~fm.popped.some)
        => \A f \in FeatureIds : fm.manager.queues[f] = << >>

(***************************************************************************)
(* TcpConnector, transports/tcp/src/connector.rs: the connection ids of    *)
(* pending outgoing connections and of the events that end them. The task  *)
(* that continue_pending_outgoing spawns is in flight until its connect    *)
(* and handshake end; it then sends one event on internal_tx.             *)
(***************************************************************************)
\* ids the connector makes in a run
MaxConnIds == 3

TCP_PROTOCOL_ID == 2

\* ConnId::from_out(protocol, uuid)
ConnId_from_out(protocol, uuid) == [protocol |-> protocol, direction |-> "out", uuid |-> uuid]

Ip4(ip) == [proto |-> "Ip4", val |-> ip]
Tcp(port) == [proto |-> "Tcp", val |-> port]
Memory(id) == [proto |-> "Memory", val |-> id]

\* NodeAddr: node id and the protocols of its multiaddr
NodeAddr(node, protos) == [node |-> node, protos |-> protos]

Dests ==
    {NodeAddr(NodeB, <<Ip4(1), Tcp(80)>>),
     NodeAddr(NodeC, <<Ip4(1), Tcp(80), Tcp(81)>>),
     NodeAddr(NodeD, <<Tcp(80)>>),
     NodeAddr(NodeD, <<Memory(1)>>)}

TcpConnector_new ==
    [conn_id_seed     |-> 0,
     pending_outgoing |-> {},
     tasks            |-> {},
     internal_tx      |-> << >>]

Pending(conn_id, dest, ip, port) ==
    [conn_id |-> conn_id, node |-> dest.node, addr |-> dest, remote |-> <<ip, port>>]

RECURSIVE create_from(_, _, _, _, _)
\* the loop of create_pending_outgoing from protocol k on
create_from(c, dest, k, ip_v4, res) ==
    IF k > Len(dest.protos) THEN [c |-> c, res |-> res]
    ELSE LET proto == dest.protos[k]
         IN  IF proto.proto = "Ip4"
             THEN create_from(c, dest, k + 1, Some(proto.val), res)
             ELSE IF proto.proto = "Tcp" /\ ip_v4.some
             THEN LET conn_id == ConnId_from_out(TCP_PROTOCOL_ID, c.conn_id_seed)
                  IN  create_from(
                          [c EXCEPT !.conn_id_seed = @ + 1,
                                    !.pending_outgoing =
                                        {p \in @ : p.conn_id # conn_id}
                                            \cup {Pending(conn_id, dest, ip_v4.val, proto.val)}],
                          dest, k + 1, ip_v4, Append(res, conn_id))
             ELSE create_from(c, dest, k + 1, ip_v4, res)

\* TcpConnector::create_pending_outgoing
create_pending_outgoing(c, dest) == create_from(c, dest, 1, None, << >>)

\* TcpConnector::continue_pending_outgoing: the task spawned carries the id
\* made from conn_id_seed; asked is the id of the call
continue_pending_outgoing(c, conn_id) ==
    LET hit == {p \in c.pending_outgoing : p.conn_id = conn_id}
    IN  IF hit = {} THEN c
        ELSE LET p == CHOOSE x \in hit : TRUE
             IN  [c EXCEPT !.pending_outgoing = @ \ hit,
                           !.conn_id_seed = @ + 1,
                           !.tasks = @ \cup {[conn_id |-> ConnId_from_out(TCP_PROTOCOL_ID,
                                                                         c.conn_id_seed),
                                             node |-> p.node, asked |-> conn_id]}]

\* TcpConnector::destroy_pending_outgoing
destroy_pending_outgoing(c, conn_id) ==
    [c EXCEPT !.pending_outgoing = {p \in @ : p.conn_id # conn_id}]

\* the end of a spawned task: TransportEvent::Outgoing after a handshake,
\* TransportEvent::OutgoingError after a failed connect or handshake
task_end(c, task, ok) ==
    [c EXCEPT !.tasks = @ \ {task},
              !.internal_tx = Append(@, [type |-> IF ok THEN "Outgoing" ELSE "OutgoingError",
                                         conn_id |-> task.conn_id, node |-> task.node,
                                         asked |-> task.asked])]

\* tcp.connector is the TcpConnector, handed the ids create_pending_outgoing
\* has returned so far, in order, and last the call just made
TcpState(c, kind, handed) == [connector |-> c, last |-> kind, handed |-> handed]

InitTcp ==
    /\ table = Table_new(NodeA, 0)
    /\ op = NoOp
    /\ net = NetIdle
    /\ links = {}
    /\ removals = 0
    /\ ticked = {}
    /\ rounds = 0
    /\ dp = PlaneIdle
    /\ cp = PlaneIdle
    /\ kv = PlaneIdle
    /\ xw = PlaneIdle
    /\ internal = PlaneIdle
    /\ fm = PlaneIdle
    /\ tcp = TcpState(TcpConnector_new, "new", << >>)

HandedIds == {tcp.handed[i] : i \in 1 .. Len(tcp.handed)}

TcpCreate ==
    /\ \E dest \in Dests :
          LET r == create_pending_outgoing(tcp.connector, dest)
          IN  /\ r.c.conn_id_seed <= MaxConnIds
              /\ tcp' = TcpState(r.c, "create_pending_outgoing", tcp.handed \o r.res)
    /\ UNCHANGED <<table, op, net, links, removals, ticked, rounds, dp, cp, kv, xw, internal, fm>>

TcpContinue ==
    /\ tcp.connector.conn_id_seed < MaxConnIds
    /\ \E conn_id \in HandedIds :
          tcp' = TcpState(continue_pending_outgoing(tcp.connector, conn_id),
                          "continue_pending_outgoing", tcp.handed)
    /\ UNCHANGED <<table, op, net, links, removals, ticked, rounds, dp, cp, kv, xw, internal, fm>>

TcpDestroy ==
    /\ \E conn_id \in HandedIds :
          tcp' = TcpState(destroy_pending_outgoing(tcp.connector, conn_id),
                          "destroy_pending_outgoing", tcp.handed)
    /\ UNCHANGED <<table, op, net, links, removals, ticked, rounds, dp, cp, kv, xw, internal, fm>>

TcpTaskEnd ==
    /\ \E task \in tcp.connector.tasks, ok \in BOOLEAN :
          tcp' = TcpState(task_end(tcp.connector, task, ok), "task_end", tcp.handed)
    /\ UNCHANGED <<table, op, net, links, removals, ticked, rounds, dp, cp, kv, xw, internal, fm>>

NextTcp == TcpCreate \/ TcpContinue \/ TcpDestroy \/ TcpTaskEnd

SpecTcp == InitTcp /\ [][NextTcp]_vars

\* C36: the event that ends a connection continued with conn_id carries
\* conn_id, and the ids create_pending_outgoing has returned are distinct.
C36_EventCarriesPendingId ==
    /\ \A i \in 1 .. Len(tcp.connector.internal_tx) :
            tcp.connector.internal_tx[i].conn_id = tcp.connector.internal_tx[i].asked
    /\ \A i, j \in 1 .. Len(tcp.handed) : tcp.handed[i] = tcp.handed[j] => i = j
====
